---------------------------- MODULE Spec2Model ----------------------------
(***************************************************************************)
(* NeuroContextOS native core: the lock-free SPSC ring buffer              *)
(* (audiogen::RingBuffer) and the LIF neuron layer (cortexn::LIFLayer).    *)
(*                                                                         *)
(* Samples are opaque to the ring buffer (it only memcpy's them), so every *)
(* accepted sample carries a unique tag: the k-th accepted sample is the   *)
(* number k.  Slot value 0 is the constructor's fill value.                *)
(* Cursor arithmetic is size_t arithmetic; every cursor stays inside       *)
(* [0, capacity_) and no subtraction below goes negative, so the 64-bit    *)
(* width never comes into play.                                            *)
(***************************************************************************)
EXTENDS Integers, Sequences, FiniteSets, TLC

\* ------------------------------------------------------------------ bounds
\* largest requested capacity (the constructor argument)
MaxCap == 3
\* largest count argument of one write/read call
MaxCount == 4
\* total number of samples the producer ever hands over
MaxSamples == 6
\* fixed-point grid of the float values: 1.0 is Scale units
Scale == 4
\* largest weight or bias handed to load_weights, in grid units
MaxWeight == 2
\* number of forward calls made on a layer
MaxForward == 2
\* call depth at which the stack is exhausted
MaxDepth == 4
\* the layer's dimensions (constructor arguments)
InputSize == 2
OutputSize == 2
\* largest dimensions handed to a kernel function called directly
MaxKernelInput == 8
MaxKernelBatch == 2
MaxKernelOutput == 2
\* largest num_steps of a LatencyEncoder called on its own
MaxSteps == 10
\* largest dimensions of a SpikeEncoder's tensor [num_steps, batch_size, input_size]
MaxEncSteps == 3
MaxEncBatch == 2
MaxEncInput == 2
\* largest input_size of a TemporalContrastEncoder
MaxContrastInput == 2
\* largest iterations argument of a benchmark_kernel call that gives one
MaxIterations == 3
\* longest wall-clock time of one kernel invocation, in ms
MaxKernelMs == 2
\* number of generate() calls made on an engine
MaxGenerate == 2
\* largest num_inference_steps of a generate() call
MaxInferenceSteps == 2
\* largest capacity argument of a utils::RingBuffer
MaxUtilCap == 4
\* number of items offered to a utils::RingBuffer
MaxUtilItems == 6

VARIABLES
    \* audiogen::RingBuffer fields
    capacity_, buffer_, write_pos_, read_pos_,
    \* observation of the calls (not program state)
    requested,  \* the capacity argument the constructor was given
    written,    \* samples accepted by write calls, in order
    readOut,    \* samples returned by read calls, in order
    consumed,   \* how many accepted samples were read or discarded so far
    clearMark,  \* Len(written) at the last clear()
    lastCall,   \* the call that returned last
    prevCall,   \* the call that returned before it
    oob,        \* TRUE once a memcpy touched an index outside the array
    \* the two threads of the SPSC protocol, between their steps
    prod, cons,
    \* the build: which of HAVE_SME2 and HAVE_NEON are defined
    have_sme2, have_neon,
    \* cortexn::LIFLayer fields
    params_, beta_mem_, beta_syn_, weights_, bias_,
    membrane_potential_, synaptic_current_,
    \* a forward call in progress, and the caller's output array
    fwd, output_spikes,
    \* observation of the layer's calls (not program state)
    pre_mem,    \* membrane_potential_ when the forward call began
    pre_syn,    \* synaptic_current_ when the forward call began
    last_op,    \* the LIFLayer call that returned last
    nforward,   \* number of forward calls begun
    \* a second LIFLayer instance: the fields above are those of the instance
    \* the caller is calling (its number is this), other holds the fields of
    \* the instance that is not being called
    this, other,
    \* observation of direct kernel calls: the arguments and what each
    \* kernel function returned for them
    kres,
    \* cortexn::SpikeEncoder: its fields (input_size_, num_steps_, type_), the
    \* caller's spike_trains array, and the encode call that returned last
    encoder, spike_trains, enc_call,
    \* cortexn::LatencyEncoder: its field num_steps_, and the last two
    \* encode calls
    latency, lat_call, lat_prev,
    \* cortexn::TemporalContrastEncoder: its fields (input_size_, threshold_,
    \* prev_input_), and the last two encode calls
    contrast, tc_call, tc_prev,
    \* kernels::SpikeDenseBenchmark: the benchmark_kernel call in progress, the
    \* results vector of run_all_benchmarks, the wall clock (in ms) and the
    \* time one kernel invocation takes
    bench, results, clock, kernel_ms,
    \* audiogen::AudioGenEngine: its atomic flags (initialized_,
    \* cancel_requested_), and the generate() call in progress
    engine, gen,
    \* cortexn::utils::RingBuffer<T>: its fields (buffer_, capacity_,
    \* write_idx_, read_idx_), and the observation of its calls: the items
    \* accepted and returned so far, the number offered, the last call
    util, util_obs,
    \* a thread inside available() or remaining() of the audiogen::RingBuffer,
    \* between its two cursor loads
    obs,
    \* a thread inside clear() of the audiogen::RingBuffer, between its load
    \* of write_pos_ and its store of read_pos_
    clr,
    \* a second LIFLayer, constructed with the arguments of the first and
    \* given, since the first was reset, the same load_weights and forward calls
    fresh

ringVars  == <<capacity_, buffer_, write_pos_, read_pos_>>
ghostVars == <<requested, written, readOut, consumed, clearMark, lastCall, prevCall, oob>>
spscVars  == <<prod, cons>>
buildVars == <<have_sme2, have_neon>>
layerVars == <<params_, beta_mem_, beta_syn_, weights_, bias_,
               membrane_potential_, synaptic_current_>>
callVars  == <<fwd, output_spikes, pre_mem, pre_syn, last_op, nforward>>
lifVars   == <<buildVars, layerVars, callVars>>
instVars  == <<this, other>>
ringSide == <<ringVars, ghostVars, spscVars>>
encVars == <<encoder, spike_trains, enc_call>>
latVars == <<latency, lat_call, lat_prev>>
tcVars  == <<contrast, tc_call, tc_prev>>
encSide == <<encVars, latVars, tcVars>>
benchVars == <<bench, results, clock, kernel_ms>>
genVars == <<engine, gen>>
utilVars == <<util, util_obs>>
\* the later components that the benchmark leaves alone
extParked == <<genVars, utilVars, obs, clr, fresh>>
\* the components added to the model after the ring buffer, layer and encoders
extSide == <<benchVars, extParked>>
\* what a ring buffer call leaves alone
ringRest == <<lifVars, instVars, kres, encSide, extSide>>
\* what a call on the current LIFLayer instance leaves alone
lifRest == <<ringSide, instVars, kres, encSide, extSide>>
\* what a call on an encoder leaves alone
encRest == <<ringSide, lifVars, instVars, kres, extSide>>
vars == <<ringSide, lifVars, instVars, kres, encSide, extSide>>

Min(a, b) == IF a < b THEN a ELSE b

\* --------------------------------------------------------- pure helpers

\* a space computation that forgets the reserved slot
WriteSpaceNoSentinel(write_pos, read_pos) ==
    IF write_pos >= read_pos
    THEN capacity_ - (write_pos - read_pos)
    ELSE read_pos - write_pos

\* write(): "Calculate available space"
WriteSpace(write_pos, read_pos) ==
    IF write_pos >= read_pos
    THEN capacity_ - (write_pos - read_pos) - 1
    ELSE read_pos - write_pos - 1

\* an available-data computation that is one too large
ReadAvailOffByOne(write_pos, read_pos) ==
    IF write_pos >= read_pos
    THEN write_pos - read_pos + 1
    ELSE capacity_ - (read_pos - write_pos) + 1

\* read(): "Calculate available data"
ReadAvail(write_pos, read_pos) ==
    IF write_pos >= read_pos
    THEN write_pos - read_pos
    ELSE capacity_ - (read_pos - write_pos)

\* a first chunk that is never cut at the physical end
FirstChunkNoSplit(count, pos) == count

\* first_chunk = std::min(count, capacity_ - pos)
FirstChunk(count, pos) == Min(count, capacity_ - pos)

\* array index of the j-th sample (j from 0) of a transfer starting at pos:
\* the first memcpy covers buffer_ + pos .. , the second one buffer_ + 0 ..
ChunkIndex(pos, first_chunk, j) ==
    IF j < first_chunk THEN pos + j ELSE j - first_chunk

\* a cursor update without the modulo
NewPosNoWrap(pos, count) == pos + count

\* new cursor = (pos + count) % capacity_
NewPos(pos, count) == (pos + count) % capacity_

\* the memcpy calls of one transfer, as <<start index, length>>
Regions(pos, count) ==
    LET first_chunk == FirstChunk(count, pos)
    IN  IF first_chunk < count
        THEN << <<pos, first_chunk>>, <<0, count - first_chunk>> >>
        ELSE << <<pos, first_chunk>> >>

\* the array indices one transfer touches
Touched(pos, count) ==
    { ChunkIndex(pos, FirstChunk(count, pos), j) : j \in 0..(count - 1) }

Slots == 0..(capacity_ - 1)

\* available()
available ==
    LET write_pos == write_pos_
        read_pos  == read_pos_
    IN  IF write_pos >= read_pos
        THEN write_pos - read_pos
        ELSE capacity_ - (read_pos - write_pos)

\* remaining()
remaining == capacity_ - available - 1

\* the caller's array of a write(data, count): the next count fresh samples
CallerData(count) == [j \in 1..count |-> Len(written) + j]

NoCall(buf) ==
    [op |-> "none", count |-> 0, ret |-> 0, data |-> <<>>, regions |-> <<>>,
     pre_write |-> 0, pre_read |-> 0, pre_avail |-> 0, pre_remaining |-> 0,
     pre_buf |-> buf]

\* ------------------------------------------------------------ construction
\* a constructor without the sentinel slot
PhysicalCapacityNoSentinel(capacity) == capacity

\* capacity_(capacity + 1): "+1 to distinguish full from empty"
PhysicalCapacity(capacity) == capacity + 1

\* RingBuffer::RingBuffer(capacity): capacity_ = capacity + 1, zero-filled
InitRing ==
    /\ requested \in 1..MaxCap
    /\ capacity_ = PhysicalCapacity(requested)
    /\ buffer_ = [k \in 0..(capacity_ - 1) |-> 0]
    /\ write_pos_ = 0
    /\ read_pos_ = 0
    /\ written = <<>>
    /\ readOut = <<>>
    /\ consumed = 0
    /\ clearMark = 0
    /\ lastCall = NoCall(buffer_)
    /\ prevCall = NoCall(buffer_)
    /\ oob = FALSE

\* a thread inside a call: its locals and where it stands
Thread(pc, count, data, write_pos, read_pos, cnt, i) ==
    [pc |-> pc, count |-> count, data |-> data, write_pos |-> write_pos,
     read_pos |-> read_pos, cnt |-> cnt, i |-> i]

ThreadIdle == Thread("idle", 0, <<>>, 0, 0, 0, 0)

\* ------------------------------------------------------------- LIF layer
\* float values are fixed-point numbers on a grid of 1/Scale: 1.0f is Scale
\* units, and a product is rounded down to the grid (a float product is
\* rounded to the float grid).  Sums of grid values are exact.
One == Scale

\* a * b for two grid values
FMul(a, b) == (a * b) \div Scale

\* std::exp(-dt / tau) for the time constants used, in 1/32
ExpNeg(dt, tau) ==
    CASE tau = 10 * dt -> 29
      [] tau = 5 * dt  -> 26
      [] tau = 2 * dt  -> 19
      [] OTHER         -> 12

\* beta * x for a decay factor beta (in 1/32) and a grid value x
Decay(beta, x) == (beta * x) \div 32

\* LIFParams(): the default parameters
LIFParamsDefault ==
    [tau_mem |-> 10, tau_syn |-> 5, v_thresh |-> One, v_reset |-> 0,
     v_rest |-> 0, dt |-> 1]

\* the parameter sets a layer is constructed with
ParamChoices ==
    { LIFParamsDefault,
      [LIFParamsDefault EXCEPT !.tau_mem = 2, !.v_rest = 1, !.v_reset = -1] }

Zeros(n) == [k \in 0..(n - 1) |-> 0]

\* stale content of the caller's output array: neither 0.0 nor 1.0
Stale == -One

\* ---- kernels (batch-major spikes, output-major weights)

RECURSIVE ScalarLoop(_, _, _, _, _, _, _)
\* lif_layer.cpp, the inner loop: sum += weights[o*input_size+i] * spikes[b*input_size+i]
ScalarLoop(spikes, weights, b, o, i, input_size, sum) ==
    IF i < input_size
    THEN ScalarLoop(spikes, weights, b, o, i + 1, input_size,
                    sum + FMul(weights[o * input_size + i],
                               spikes[b * input_size + i]))
    ELSE sum

\* lif_layer.cpp, the scalar fallback of spike_dense_forward
ScalarKernel(spikes, weights, bias, batch_size, input_size, output_size) ==
    [k \in 0..(batch_size * output_size - 1) |->
        LET b == k \div output_size
            o == k % output_size
        IN  ScalarLoop(spikes, weights, b, o, 0, input_size, bias[o])]

RECURSIVE NeonVectorLoop(_, _, _, _, _, _, _)
\* spike_dense_neon: the 4-lane loop; gives <<i, sum_vec>> at its exit
NeonVectorLoop(spikes, weights, b, o, i, input_size, sum_vec) ==
    IF i + 3 < input_size
    THEN NeonVectorLoop(spikes, weights, b, o, i + 4, input_size,
             [l \in 0..3 |->
                 sum_vec[l] + FMul(spikes[b * input_size + i + l],
                                   weights[o * input_size + i + l])])
    ELSE <<i, sum_vec>>

\* a horizontal sum that adds up the low half of the vector only
HorizontalSumLowHalf(sum_vec) == sum_vec[0] + sum_vec[1]

\* spike_dense_neon: sum_pair = vadd_f32(low half, high half), then
\* vpadd_f32(sum_pair, sum_pair) lane 0
HorizontalSum(sum_vec) ==
    LET sum_pair == <<sum_vec[0] + sum_vec[2], sum_vec[1] + sum_vec[3]>>
    IN  sum_pair[1] + sum_pair[2]

\* spike_dense_neon with HAVE_NEON: vector loop, horizontal sum, scalar tail
NeonKernel(spikes, weights, bias, batch_size, input_size, output_size) ==
    [k \in 0..(batch_size * output_size - 1) |->
        LET b == k \div output_size
            o == k % output_size
            v == NeonVectorLoop(spikes, weights, b, o, 0, input_size,
                                [l \in 0..3 |-> 0])
            sum_scalar == bias[o] + HorizontalSum(v[2])
        IN  ScalarLoop(spikes, weights, b, o, v[1], input_size, sum_scalar)]

\* ---- neuron dynamics

\* update_neurons: synaptic_current_[i] = beta_syn_ * synaptic_current_[i] + synaptic_input[i]
SynapticUpdate(syn, input) == Decay(beta_syn_, syn) + input

\* update_neurons: membrane_potential_[i] = beta_mem_ * membrane_potential_[i] + synaptic_current_[i]
MembraneUpdate(mem, syn) == Decay(beta_mem_, mem) + syn

\* a spike test that excludes the threshold itself
SpikesStrict(mem) == mem > params_.v_thresh

\* update_neurons: if (membrane_potential_[i] >= params_.v_thresh)
Spikes(mem) == mem >= params_.v_thresh

\* an update that writes the output element only when the neuron spikes
SpikeOutputOnlyOnSpike(spiked, old) == IF spiked THEN One ELSE old

\* update_neurons: output_spikes[i] = 1.0f / 0.0f
SpikeOutput(spiked, old) == IF spiked THEN One ELSE 0

\* the arguments of a kernel function (the output pointer apart)
KernelArgs(spikes, weights, bias, batch_size, input_size, output_size) ==
    [spikes |-> spikes, weights |-> weights, bias |-> bias,
     batch_size |-> batch_size, input_size |-> input_size,
     output_size |-> output_size]

NoArgs == KernelArgs(<<>>, <<>>, <<>>, 0, 0, 0)

\* a call in progress: entry is the function the caller called ("forward" for
\* LIFLayer::forward, else a kernel function called directly), args and output
\* are the kernel functions' arguments, path lists the kernel functions
\* entered, and body names the kernel body that wrote the output
Frame(pc, entry, input_spikes, synaptic_input, args, output, i, depth, path, body) ==
    [pc |-> pc, entry |-> entry, input_spikes |-> input_spikes,
     synaptic_input |-> synaptic_input, args |-> args, output |-> output,
     i |-> i, depth |-> depth, path |-> path, body |-> body]

FwdIdle ==
    Frame("idle", "none", Zeros(InputSize), Zeros(OutputSize), NoArgs, <<>>,
          0, 0, <<>>, "none")

\* LIFLayer::LIFLayer(input_size, output_size, params)
InitLayer ==
    /\ beta_mem_ = ExpNeg(params_.dt, params_.tau_mem)
    /\ beta_syn_ = ExpNeg(params_.dt, params_.tau_syn)
    /\ weights_ = Zeros(InputSize * OutputSize)
    /\ bias_ = Zeros(OutputSize)
    /\ membrane_potential_ = [o \in 0..(OutputSize - 1) |-> params_.v_rest]
    /\ synaptic_current_ = Zeros(OutputSize)
    /\ fwd = FwdIdle
    /\ output_spikes = [o \in 0..(OutputSize - 1) |-> Stale]
    /\ pre_mem = membrane_potential_
    /\ pre_syn = synaptic_current_
    /\ last_op = "none"
    /\ nforward = 0

\* the weight arrays handed to load_weights: a uniform one and a ramp
WeightChoices ==
    { [k \in 0..(InputSize * OutputSize - 1) |-> MaxWeight],
      [k \in 0..(InputSize * OutputSize - 1) |-> k % (MaxWeight + 1)] }

BiasChoices ==
    { Zeros(OutputSize), [o \in 0..(OutputSize - 1) |-> o % 2] }

\* the spike vectors handed to forward: every element 0.0 or 1.0
SpikeChoices == [0..(InputSize - 1) -> {0, One}]

\* the previous forward call is over: its locals are gone, the caller's
\* output array is released, and the observation starts from mem and syn
ForgetForward(mem, syn) ==
    /\ fwd' = FwdIdle
    /\ output_spikes' = [o \in 0..(OutputSize - 1) |-> Stale]
    /\ pre_mem' = mem
    /\ pre_syn' = syn

\* LIFLayer::load_weights(weights, bias)
LoadWeightsBody(weights, bias) ==
    /\ fwd.pc = "idle"
    /\ weights_' = weights
    /\ bias_' = bias
    /\ last_op' = "load_weights"
    /\ ForgetForward(membrane_potential_, synaptic_current_)
    /\ UNCHANGED <<buildVars, params_, beta_mem_, beta_syn_, membrane_potential_,
                   synaptic_current_, nforward>>

LoadWeights(weights, bias) ==
    /\ LoadWeightsBody(weights, bias)
    /\ UNCHANGED lifRest

\* a reset to the reset potential instead of the resting potential
ResetPotentialIsVReset == params_.v_reset

\* reset(): the value std::fill puts into membrane_potential_
ResetPotential == params_.v_rest

\* LIFLayer::reset(); pre_mem and pre_syn keep the state it started from
ResetBody ==
    /\ fwd.pc = "idle"
    /\ membrane_potential_' = [o \in 0..(OutputSize - 1) |-> ResetPotential]
    /\ synaptic_current_' = Zeros(OutputSize)
    /\ last_op' = "reset"
    /\ ForgetForward(membrane_potential_, synaptic_current_)
    /\ UNCHANGED <<buildVars, params_, beta_mem_, beta_syn_, weights_, bias_,
                   nforward>>

Reset ==
    /\ ResetBody
    /\ UNCHANGED lifRest

\* LIFLayer::forward, up to the call of kernels::spike_dense_forward: the
\* caller's output array holds stale values, synaptic_input is zero-filled
ForwardCallBody(input_spikes) ==
    /\ fwd.pc = "idle"
    /\ nforward < MaxForward
    /\ fwd' = Frame("spike_dense_forward", "forward", input_spikes,
                    Zeros(OutputSize),
                    KernelArgs(input_spikes, weights_, bias_, 1, InputSize,
                               OutputSize),
                    Zeros(OutputSize), 0, 1, <<"spike_dense_forward">>, "none")
    /\ output_spikes' = [o \in 0..(OutputSize - 1) |-> Stale]
    /\ pre_mem' = membrane_potential_
    /\ pre_syn' = synaptic_current_
    /\ nforward' = nforward + 1
    /\ UNCHANGED <<buildVars, layerVars, last_op>>

ForwardCall(input_spikes) ==
    /\ ForwardCallBody(input_spikes)
    /\ UNCHANGED lifRest

\* a nested call of a kernel function: one more stack frame, or none left
CallKernel(target) ==
    IF fwd.depth < MaxDepth
    THEN [fwd EXCEPT !.pc = target, !.depth = fwd.depth + 1,
                     !.path = Append(fwd.path, target)]
    ELSE [fwd EXCEPT !.pc = "stack_overflow"]

\* a kernel body has filled the output; every frame of the chain returns, to
\* compute_synaptic_input (whose output array is synaptic_input) or to the
\* caller of a direct kernel call
KernelDone(body, output) ==
    [fwd EXCEPT !.pc = IF fwd.entry = "forward" THEN "update_neurons"
                       ELSE "kernel_returned",
                !.synaptic_input = IF fwd.entry = "forward" THEN output ELSE @,
                !.output = output, !.body = body, !.i = 0, !.depth = 0]

\* the kernel bodies, applied to the arguments of the call in progress
ScalarBody ==
    ScalarKernel(fwd.args.spikes, fwd.args.weights, fwd.args.bias,
                 fwd.args.batch_size, fwd.args.input_size, fwd.args.output_size)

NeonBody ==
    NeonKernel(fwd.args.spikes, fwd.args.weights, fwd.args.bias,
               fwd.args.batch_size, fwd.args.input_size, fwd.args.output_size)

\* kernels::spike_dense_forward (lif_layer.cpp)
SpikeDenseForward ==
    /\ fwd.pc = "spike_dense_forward"
    /\ fwd' = IF have_sme2 THEN CallKernel("spike_dense_sme2")
              ELSE IF have_neon THEN CallKernel("spike_dense_neon")
              ELSE KernelDone("scalar", ScalarBody)
    /\ UNCHANGED <<buildVars, layerVars, output_spikes, pre_mem, pre_syn,
                   last_op, nforward>>
    /\ UNCHANGED lifRest

\* kernels::spike_dense_sme2 (both variants delegate the same way)
SpikeDenseSme2 ==
    /\ fwd.pc = "spike_dense_sme2"
    /\ fwd' = IF have_neon THEN CallKernel("spike_dense_neon")
              ELSE CallKernel("spike_dense_forward")
    /\ UNCHANGED <<buildVars, layerVars, output_spikes, pre_mem, pre_syn,
                   last_op, nforward>>
    /\ UNCHANGED lifRest

\* kernels::spike_dense_neon: the kernel with HAVE_NEON, else the fallback
SpikeDenseNeon ==
    /\ fwd.pc = "spike_dense_neon"
    /\ fwd' = IF have_neon
              THEN KernelDone("neon", NeonBody)
              ELSE CallKernel("spike_dense_forward")
    /\ UNCHANGED <<buildVars, layerVars, output_spikes, pre_mem, pre_syn,
                   last_op, nforward>>
    /\ UNCHANGED lifRest

\* LIFLayer::update_neurons, one iteration of its loop
UpdateNeuron ==
    /\ fwd.pc = "update_neurons"
    /\ fwd.i < OutputSize
    /\ LET i == fwd.i
           syn == SynapticUpdate(synaptic_current_[i], fwd.synaptic_input[i])
           mem == MembraneUpdate(membrane_potential_[i], syn)
       IN  /\ synaptic_current_' = [synaptic_current_ EXCEPT ![i] = syn]
           /\ membrane_potential_' =
                 [membrane_potential_ EXCEPT
                     ![i] = IF Spikes(mem) THEN params_.v_reset ELSE mem]
           /\ output_spikes' =
                 [output_spikes EXCEPT ![i] = SpikeOutput(Spikes(mem), @)]
           /\ fwd' = [fwd EXCEPT !.i = i + 1]
    /\ UNCHANGED <<buildVars, params_, beta_mem_, beta_syn_, weights_, bias_,
                   pre_mem, pre_syn, last_op, nforward>>
    /\ UNCHANGED lifRest

\* LIFLayer::forward returns
ForwardReturnBody ==
    /\ fwd.pc = "update_neurons"
    /\ fwd.i = OutputSize
    /\ fwd' = [fwd EXCEPT !.pc = "idle"]
    /\ last_op' = "forward"
    /\ UNCHANGED <<buildVars, layerVars, output_spikes, pre_mem, pre_syn, nforward>>

ForwardReturn ==
    /\ ForwardReturnBody
    /\ UNCHANGED lifRest

\* ---- two LIFLayer instances

\* the fields of the instance being called, as one record
ThisLayer ==
    [params_ |-> params_, beta_mem_ |-> beta_mem_, beta_syn_ |-> beta_syn_,
     weights_ |-> weights_, bias_ |-> bias_,
     membrane_potential_ |-> membrane_potential_,
     synaptic_current_ |-> synaptic_current_]

\* LIFLayer::LIFLayer(input_size, output_size, params), as one record
NewLayer(params) ==
    [params_ |-> params,
     beta_mem_ |-> ExpNeg(params.dt, params.tau_mem),
     beta_syn_ |-> ExpNeg(params.dt, params.tau_syn),
     weights_ |-> Zeros(InputSize * OutputSize),
     bias_ |-> Zeros(OutputSize),
     membrane_potential_ |-> [o \in 0..(OutputSize - 1) |-> params.v_rest],
     synaptic_current_ |-> Zeros(OutputSize)]

\* weights and bias kept in storage that all instances share
OtherFieldsSharedWeights == [other EXCEPT !.weights_ = weights_, !.bias_ = bias_]

\* the fields of the other instance: non-static members, its own storage
OtherFields == other

\* the instance with number id
Instance(id) == IF this = id THEN ThisLayer ELSE other

\* the caller turns to its other LIFLayer object: the next calls are made on it
SwitchInstance ==
    /\ fwd.pc = "idle"
    /\ this' = 1 - this
    /\ other' = ThisLayer
    /\ params_' = OtherFields.params_
    /\ beta_mem_' = OtherFields.beta_mem_
    /\ beta_syn_' = OtherFields.beta_syn_
    /\ weights_' = OtherFields.weights_
    /\ bias_' = OtherFields.bias_
    /\ membrane_potential_' = OtherFields.membrane_potential_
    /\ synaptic_current_' = OtherFields.synaptic_current_
    /\ last_op' = "none"
    /\ ForgetForward(membrane_potential_', synaptic_current_')
    /\ UNCHANGED <<buildVars, nforward, kres>>
    /\ UNCHANGED <<ringSide, encSide, extSide>>

\* ---- a newly constructed layer run beside one that was reset

\* the body kernels::spike_dense_forward ends in, in a build where it returns
DispatchedKernel(spikes, weights, bias, batch_size, input_size, output_size) ==
    IF have_neon
    THEN NeonKernel(spikes, weights, bias, batch_size, input_size, output_size)
    ELSE ScalarKernel(spikes, weights, bias, batch_size, input_size, output_size)

\* LIFLayer::forward on the layer with fields l, as one function of l and the
\* input: compute_synaptic_input, then update_neurons for every neuron
Forward(l, input_spikes) ==
    LET synaptic_input ==
            DispatchedKernel(input_spikes, l.weights_, l.bias_, 1, InputSize,
                             OutputSize)
        syn == [i \in 0..(OutputSize - 1) |->
                   Decay(l.beta_syn_, l.synaptic_current_[i]) + synaptic_input[i]]
        mem == [i \in 0..(OutputSize - 1) |->
                   Decay(l.beta_mem_, l.membrane_potential_[i]) + syn[i]]
    IN  [layer |-> [l EXCEPT
                      !.synaptic_current_ = syn,
                      !.membrane_potential_ =
                          [i \in 0..(OutputSize - 1) |->
                              IF mem[i] >= l.params_.v_thresh
                              THEN l.params_.v_reset ELSE mem[i]]],
         output_spikes |-> [i \in 0..(OutputSize - 1) |->
                              IF mem[i] >= l.params_.v_thresh THEN One ELSE 0]]

\* no neuron of the layer being called is in the state the constructor left
Disturbed ==
    \A i \in 0..(OutputSize - 1) :
        /\ membrane_potential_[i] # params_.v_rest
        /\ synaptic_current_[i] > 0

\* no second layer yet
NoFresh ==
    [live |-> FALSE, layer |-> NewLayer(LIFParamsDefault),
     output_spikes |-> [o \in 0..(OutputSize - 1) |-> Stale],
     disturbed |-> FALSE]

freshRest == <<ringSide, instVars, kres, encSide, benchVars, genVars, utilVars,
               obs, clr>>

\* reset() on the first layer; the second is constructed with the same
\* parameters and load_weights is called on it with the first one's arrays
FreshReset ==
    /\ ResetBody
    /\ fresh' = [live |-> TRUE,
                 layer |-> [NewLayer(params_) EXCEPT !.weights_ = weights_,
                                                     !.bias_ = bias_],
                 output_spikes |-> [o \in 0..(OutputSize - 1) |-> Stale],
                 disturbed |-> Disturbed]
    /\ UNCHANGED freshRest

\* load_weights on the first layer, and on the second one once it exists
FreshLoadWeights(weights, bias) ==
    /\ LoadWeightsBody(weights, bias)
    /\ fresh' = IF fresh.live
                THEN [fresh EXCEPT !.layer.weights_ = weights,
                                   !.layer.bias_ = bias,
                                   !.output_spikes =
                                       [o \in 0..(OutputSize - 1) |-> Stale]]
                ELSE fresh
    /\ UNCHANGED freshRest

\* forward is called on the first layer
FreshForwardCall(input_spikes) ==
    /\ ForwardCallBody(input_spikes)
    /\ UNCHANGED fresh
    /\ UNCHANGED freshRest

\* forward returns on the first layer; the same call is made on the second
FreshForwardReturn ==
    /\ ForwardReturnBody
    /\ fresh' = IF fresh.live
                THEN LET r == Forward(fresh.layer, fwd.input_spikes)
                     IN  [fresh EXCEPT !.layer = r.layer,
                                       !.output_spikes = r.output_spikes]
                ELSE fresh
    /\ UNCHANGED freshRest

\* ---- kernel functions called directly (as the benchmark does)

\* no direct kernel call observed yet
NoKres == [args |-> NoArgs, out |-> << >>]

\* an output array before the call: every element stale
StaleOutput(args) ==
    [k \in 0..(args.batch_size * args.output_size - 1) |-> Stale]

\* a caller calls the kernel function entry with args and a stale output array
KernelCall(entry, args) ==
    /\ fwd.pc = "idle"
    /\ fwd' = Frame(entry, entry, Zeros(InputSize), Zeros(OutputSize), args,
                    StaleOutput(args), 0, 1, <<entry>>, "none")
    /\ kres' = IF kres.args = args THEN kres ELSE [args |-> args, out |-> << >>]
    /\ UNCHANGED <<buildVars, layerVars, output_spikes, pre_mem, pre_syn,
                   last_op, nforward>>
    /\ UNCHANGED <<ringSide, instVars, encSide, extSide>>

\* the kernel function returns to its caller, which keeps the output
KernelReturn ==
    /\ fwd.pc = "kernel_returned"
    /\ kres' = [kres EXCEPT !.out =
                   [e \in (DOMAIN kres.out) \cup {fwd.entry} |->
                      IF e = fwd.entry
                      THEN [output |-> fwd.output, path |-> fwd.path,
                            body |-> fwd.body]
                      ELSE kres.out[e]]]
    /\ fwd' = FwdIdle
    /\ UNCHANGED <<buildVars, layerVars, output_spikes, pre_mem, pre_syn,
                   last_op, nforward>>
    /\ UNCHANGED <<ringSide, instVars, encSide, extSide>>

\* -------------------------------------------------------------- encoders
Max(a, b) == IF a > b THEN a ELSE b

\* ---- LatencyEncoder (spike_encoder.h)
\* Inputs are grid values (1.0f is One).  normalized is kept in units of
\* 1/(2*One), so that the division by 2.0f is exact, and the product with
\* num_steps_ is truncated as static_cast<int> truncates it.

\* normalized = (input + 1.0f) / 2.0f, in units of 1/(2*One)
Normalized(input) == input + One

\* std::max(0.0f, std::min(1.0f, normalized))
Clamped(normalized) == Max(0, Min(2 * One, normalized))

\* static_cast<int>((1.0f - normalized) * num_steps_)
SpikeTime(normalized, num_steps) ==
    ((2 * One - normalized) * num_steps) \div (2 * One)

\* a last slot that is one past the end
LastSlotPastEnd(num_steps) == num_steps

\* num_steps_ - 1
LastSlot(num_steps) == num_steps - 1

\* LatencyEncoder::encode(input)
LatencyEncode(num_steps, input) ==
    LET normalized == Clamped(Normalized(input))
        spike_time == SpikeTime(normalized, num_steps)
    IN  Min(spike_time, LastSlot(num_steps))

\* the inputs handed to LatencyEncoder::encode: -2.0 .. 2.0
LatencyInputs == (-2 * One)..(2 * One)

NoLatCall == [made |-> FALSE, input |-> 0, ret |-> 0]

\* LatencyEncoder::LatencyEncoder(num_steps)
InitLatencyEncoder ==
    /\ latency \in [num_steps_ : 1..MaxSteps]
    /\ lat_call = NoLatCall
    /\ lat_prev = NoLatCall

ParkLatencyEncoder ==
    /\ latency = [num_steps_ |-> 1]
    /\ lat_call = NoLatCall
    /\ lat_prev = NoLatCall

\* a call of LatencyEncoder::encode(input) on the encoder
LatencyEncoderEncode(input) ==
    /\ lat_call' = [made |-> TRUE, input |-> input,
                    ret |-> LatencyEncode(latency.num_steps_, input)]
    /\ lat_prev' = lat_call
    /\ UNCHANGED <<latency, encVars, tcVars>>
    /\ UNCHANGED encRest

\* ---- RateEncoder (spike_encoder.h)
\* RateEncoder(float gain = 10.0f, ...)
Gain == 10

\* 1.0f / (1.0f + std::exp(-g)) on the grid: increasing, 0.5 at 0, strictly
\* between 0 and 1 except that it rounds to 1.0f for large g (above 17)
Sigmoid(g) ==
    IF g > 17 * One THEN One
    ELSE IF g > 0 THEN One - 1
    ELSE IF g = 0 THEN One \div 2
    ELSE 1

\* RateEncoder::encode(input), where u is the value dist_(rng_) draws
RateEncode(input, u) == IF u < Sigmoid(Gain * input) THEN One ELSE 0

\* the values std::mt19937 and the uniform distribution on [0, 1) deliver in
\* one call, one per element: any stream may come, three are followed
RngStreams(n) ==
    { [k \in 0..(n - 1) |-> 0],
      [k \in 0..(n - 1) |-> One - 1],
      [k \in 0..(n - 1) |-> k % One] }

\* ---- SpikeEncoder (cortexn_snn.cpp)
EncodingType == {"RATE", "LATENCY", "TEMPORAL"}

\* number of elements of the [num_steps, batch_size, input_size] tensor
TensorSize(batch_size) == encoder.num_steps_ * batch_size * encoder.input_size_

\* idx = t * batch_size * input_size_ + b * input_size_ + i
TensorIndex(t, b, i, batch_size) ==
    t * batch_size * encoder.input_size_ + b * encoder.input_size_ + i

\* the caller's spike_trains array before a call: every element stale
StaleTrains(batch_size) == [k \in 0..(TensorSize(batch_size) - 1) |-> Stale]

\* SpikeEncoder::encode_rate: the loops over t, b, i draw one value each, in
\* the order of idx
EncodeRate(input, trains, batch_size, stream) ==
    [k \in DOMAIN trains |->
        LET t == k \div (batch_size * encoder.input_size_)
            b == (k % (batch_size * encoder.input_size_)) \div encoder.input_size_
            i == k % encoder.input_size_
        IN  IF k = TensorIndex(t, b, i, batch_size)
               /\ t < encoder.num_steps_ /\ b < batch_size
            THEN RateEncode(input[b * encoder.input_size_ + i], stream[k])
            ELSE trains[k]]

\* an encode_latency that leaves the array as the caller handed it over
MemsetSkipped(trains) == trains

\* std::memset(spike_trains, 0, num_steps_ * batch_size * input_size_ * sizeof(float))
MemsetZero(trains) == [k \in DOMAIN trains |-> 0]

\* encode_latency: the idx written for (b, i)
LatencyIndex(input, b, i, batch_size) ==
    LET spike_time == LatencyEncode(encoder.num_steps_,
                                    input[b * encoder.input_size_ + i])
    IN  TensorIndex(spike_time, b, i, batch_size)

\* the idx values of one encode_latency call
LatencyIndices(input, batch_size) ==
    { LatencyIndex(input, b, i, batch_size) :
         b \in 0..(batch_size - 1), i \in 0..(encoder.input_size_ - 1) }

\* SpikeEncoder::encode_latency
EncodeLatency(input, trains, batch_size) ==
    [k \in DOMAIN trains |->
        IF k \in LatencyIndices(input, batch_size) THEN One
        ELSE MemsetZero(trains)[k]]

NoEncCall == [made |-> FALSE, input |-> << >>, batch_size |-> 0, oob |-> FALSE]

\* SpikeEncoder::encode(input, spike_trains, batch_size); stream is what the
\* random generator delivers should encode_rate run
Encode(input, batch_size, stream) ==
    LET trains == StaleTrains(batch_size)
    IN  /\ spike_trains' =
              CASE encoder.type_ = "RATE" ->
                      EncodeRate(input, trains, batch_size, stream)
                [] encoder.type_ = "LATENCY" ->
                      EncodeLatency(input, trains, batch_size)
                [] OTHER -> trains
        /\ enc_call' =
              [made |-> TRUE, input |-> input, batch_size |-> batch_size,
               oob |-> /\ encoder.type_ = "LATENCY"
                       /\ ~(LatencyIndices(input, batch_size) \subseteq DOMAIN trains)]
        /\ UNCHANGED <<encoder, latVars, tcVars>>
        /\ UNCHANGED encRest

\* the input arrays handed to SpikeEncoder::encode: ramps across -1.0 .. 1.0
\* and beyond
EncInputChoices(n) ==
    { [k \in 0..(n - 1) |-> a + k * d] :
         a \in {-One - 1, -1, One - 2}, d \in {0, 1, 3} }

\* SpikeEncoder::SpikeEncoder(input_size, num_steps, type)
InitSpikeEncoder ==
    /\ encoder \in [input_size_ : 1..MaxEncInput, num_steps_ : 1..MaxEncSteps,
                     type_ : EncodingType]
    /\ spike_trains = << >>
    /\ enc_call = NoEncCall

ParkSpikeEncoder ==
    /\ encoder = [input_size_ |-> 1, num_steps_ |-> 1, type_ |-> "RATE"]
    /\ spike_trains = << >>
    /\ enc_call = NoEncCall

\* ---- TemporalContrastEncoder (spike_encoder.cpp)

\* a comparison that lets the threshold itself through
ExceedsOrEquals(delta, threshold) == delta >= threshold

\* delta > threshold_
Exceeds(delta, threshold) == delta > threshold

\* delta < -threshold_
Below(delta, threshold) == delta < -threshold

NoContrastCall ==
    [made |-> FALSE, input |-> << >>, prev |-> << >>, on_spikes |-> << >>,
     off_spikes |-> << >>]

\* TemporalContrastEncoder::encode(input, on_spikes, off_spikes)
ContrastEncode(input) ==
    LET n == contrast.input_size_
        delta == [i \in 0..(n - 1) |-> input[i] - contrast.prev_input_[i]]
        on_spikes ==
           [i \in 0..(n - 1) |->
              IF Exceeds(delta[i], contrast.threshold_) THEN One ELSE 0]
        off_spikes ==
           [i \in 0..(n - 1) |->
              IF Exceeds(delta[i], contrast.threshold_) THEN 0
              ELSE IF Below(delta[i], contrast.threshold_) THEN One
              ELSE 0]
    IN  /\ contrast' = [contrast EXCEPT !.prev_input_ = input]
        /\ tc_call' = [made |-> TRUE, input |-> input,
                       prev |-> contrast.prev_input_,
                       on_spikes |-> on_spikes, off_spikes |-> off_spikes]
        /\ tc_prev' = [made |-> tc_call.made, input |-> tc_call.input]
        /\ UNCHANGED <<encVars, latVars>>
        /\ UNCHANGED encRest

\* the sample values and the thresholds (threshold_ >= 0), in grid units
ContrastValues == -1..1
ContrastThresholds == 0..2

\* TemporalContrastEncoder::TemporalContrastEncoder(input_size, threshold)
InitContrastEncoder ==
    /\ \E n \in 1..MaxContrastInput, threshold \in ContrastThresholds :
          contrast = [input_size_ |-> n, threshold_ |-> threshold,
                      prev_input_ |-> Zeros(n)]
    /\ tc_call = NoContrastCall
    /\ tc_prev = [made |-> FALSE, input |-> << >>]

ParkContrastEncoder ==
    /\ contrast = [input_size_ |-> 1, threshold_ |-> 1, prev_input_ |-> Zeros(1)]
    /\ tc_call = NoContrastCall
    /\ tc_prev = [made |-> FALSE, input |-> << >>]

\* ------------------------------------------------- kernels::SpikeDenseBenchmark
\* benchmark_kernel: for (int i = 0; i < 10; ++i), the warm-up loop
WarmupIterations == 10

\* benchmark_kernel: int iterations = 100, the default argument
DefaultIterations == 100

\* a quotient of two doubles, kept as the fraction num / den
Quotient(num, den) == [num |-> num, den |-> den]

\* a loop test that lets the loop run once more
LoopContinuesInclusive(i, n) == i <= n

\* benchmark_kernel: the test i < n of both for loops
LoopContinues(i, n) == i < n

\* benchmark_kernel: avg_time_ms = elapsed_ms / iterations
AvgTimeMs(elapsed_ms, iterations) == Quotient(elapsed_ms, iterations)

\* benchmark_kernel: (operations / 1e9) / (avg_time_ms / 1000.0) with
\* operations = 2.0 * batch_size * input_size * output_size, as the fraction
\* operations / (1e6 * avg_time_ms)
ThroughputGflops(args, avg_time_ms) ==
    Quotient(2 * args.batch_size * args.input_size * args.output_size
               * avg_time_ms.den,
             1000000 * avg_time_ms.num)

\* BenchResult
BenchResult(kernel_name, avg_time_ms, throughput_gflops, iterations) ==
    [kernel_name |-> kernel_name, avg_time_ms |-> avg_time_ms,
     throughput_gflops |-> throughput_gflops, iterations |-> iterations]

NoResult == BenchResult("none", Quotient(0, 1), Quotient(0, 1), 0)

\* benchmark_kernel: the arrays it allocates; mt19937 rng(42) gives the same
\* values in (-1, 1) on every run
BenchArgs(batch_size, input_size, output_size) ==
    KernelArgs([k \in 0..(batch_size * input_size - 1) |->
                   (k % (2 * One - 1)) - (One - 1)],
               [k \in 0..(output_size * input_size - 1) |->
                   ((k + 1) % (2 * One - 1)) - (One - 1)],
               [k \in 0..(output_size - 1) |->
                   ((k + 2) % (2 * One - 1)) - (One - 1)],
               batch_size, input_size, output_size)

\* no benchmark running.  caller is who called benchmark_kernel, todo the
\* benchmark_kernel calls run_all_benchmarks still has to make; timer, warm,
\* timed, late, measured_ms and bodies observe the call: the state of the
\* timer, the kernel invocations made before it started, while it ran and
\* after it stopped, the time spent in the invocations made while it ran, and
\* the kernel bodies those invocations executed
BenchIdle ==
    [pc |-> "idle", caller |-> "none", todo |-> << >>,
     kernel_fn |-> "none", kernel_name |-> "none", args |-> NoArgs,
     iterations |-> 0, i |-> 0, start |-> 0, end |-> 0, ret |-> NoResult,
     timer |-> "off", warm |-> 0, timed |-> 0, late |-> 0, measured_ms |-> 0,
     bodies |-> {}, baseline |-> "none"]

\* benchmark_kernel(kernel_fn, kernel_name, batch_size, input_size,
\* output_size, iterations), up to the warm-up loop
BenchmarkKernel(b, kernel_fn, kernel_name, iterations) ==
    [b EXCEPT !.pc = "warmup", !.kernel_fn = kernel_fn,
              !.kernel_name = kernel_name,
              !.args = BenchArgs(1, InputSize, OutputSize),
              !.iterations = iterations, !.i = 0, !.start = 0, !.end = 0,
              !.ret = NoResult, !.timer = "off", !.warm = 0, !.timed = 0,
              !.late = 0, !.measured_ms = 0, !.bodies = {}]

\* what every step of the benchmark leaves alone
benchRest == <<ringSide, buildVars, layerVars, output_spikes, pre_mem, pre_syn,
               last_op, nforward, instVars, kres, encSide, extParked>>

\* kernel_fn(spikes.data(), weights.data(), bias.data(), output.data(), ...)
\* in the loop standing at pc, which runs to limit
Invoke(loop, limit) ==
    /\ bench.pc = loop
    /\ LoopContinues(bench.i, limit)
    /\ fwd.pc = "idle"
    /\ fwd' = Frame(bench.kernel_fn, bench.kernel_fn, Zeros(InputSize),
                    Zeros(OutputSize), bench.args, StaleOutput(bench.args),
                    0, 1, <<bench.kernel_fn>>, "none")
    /\ bench' = [bench EXCEPT
                    !.pc = "in_kernel",
                    !.warm = IF bench.timer = "off" THEN @ + 1 ELSE @,
                    !.timed = IF bench.timer = "running" THEN @ + 1 ELSE @,
                    !.late = IF bench.timer = "stopped" THEN @ + 1 ELSE @]
    /\ UNCHANGED <<results, clock, kernel_ms>>
    /\ UNCHANGED benchRest

\* the warm-up loop, lines 49-52
WarmupInvoke == Invoke("warmup", WarmupIterations)

\* the measured loop, lines 57-60
TimedInvoke == Invoke("timed", bench.iterations)

\* the kernel function returns into the loop it was called from; the call
\* took kernel_ms of wall-clock time
BenchKernelReturned ==
    /\ bench.pc = "in_kernel"
    /\ fwd.pc = "kernel_returned"
    /\ clock' = clock + kernel_ms
    /\ bench' = [bench EXCEPT
                    !.pc = IF bench.timer = "off" THEN "warmup" ELSE "timed",
                    !.i = @ + 1,
                    !.measured_ms = IF bench.timer = "running"
                                    THEN @ + kernel_ms ELSE @,
                    !.bodies = IF bench.timer = "running"
                               THEN @ \cup {fwd.body} ELSE @]
    /\ fwd' = FwdIdle
    /\ UNCHANGED <<results, kernel_ms>>
    /\ UNCHANGED benchRest

\* line 55: the warm-up loop is over, start = high_resolution_clock::now()
StartTimer ==
    /\ bench.pc = "warmup"
    /\ ~LoopContinues(bench.i, WarmupIterations)
    /\ bench' = [bench EXCEPT !.pc = "timed", !.i = 0, !.start = clock,
                              !.timer = "running"]
    /\ UNCHANGED <<fwd, results, clock, kernel_ms>>
    /\ UNCHANGED benchRest

\* lines 62-73: the measured loop is over, end = now(), the result is
\* computed and returned
StopTimer ==
    /\ bench.pc = "timed"
    /\ ~LoopContinues(bench.i, bench.iterations)
    /\ LET end == clock
           elapsed_ms == end - bench.start
           avg_time_ms == AvgTimeMs(elapsed_ms, bench.iterations)
       IN  bench' = [bench EXCEPT
                        !.pc = "returned", !.end = end, !.timer = "stopped",
                        !.ret = BenchResult(bench.kernel_name, avg_time_ms,
                                   ThroughputGflops(bench.args, avg_time_ms),
                                   bench.iterations)]
    /\ UNCHANGED <<fwd, results, clock, kernel_ms>>
    /\ UNCHANGED benchRest

\* run_all_benchmarks: the benchmark_kernel calls this build compiles in
BenchmarkList ==
    << <<"spike_dense_forward", "Scalar">> >>
    \o (IF have_neon THEN << <<"spike_dense_neon", "NEON">> >> ELSE << >>)
    \o (IF have_sme2 THEN << <<"spike_dense_sme2", "SME2">> >> ELSE << >>)

\* run_all_benchmarks(batch_size, input_size, output_size), up to its first
\* benchmark_kernel call (iterations left to its default)
RunAllBenchmarks ==
    /\ bench.pc = "idle"
    /\ bench.caller = "none"
    /\ bench' = BenchmarkKernel(
                   [bench EXCEPT !.caller = "run_all_benchmarks",
                                 !.todo = Tail(BenchmarkList)],
                   BenchmarkList[1][1], BenchmarkList[1][2], DefaultIterations)
    /\ UNCHANGED <<fwd, results, clock, kernel_ms>>
    /\ UNCHANGED benchRest

\* run_all_benchmarks: results.push_back of the returned result, then the
\* next benchmark_kernel call, or the summary with results[0] as baseline
PushResult ==
    /\ bench.pc = "returned"
    /\ bench.caller = "run_all_benchmarks"
    /\ results' = Append(results, bench.ret)
    /\ bench' = IF bench.todo # << >>
                THEN BenchmarkKernel([bench EXCEPT !.todo = Tail(@)],
                                     bench.todo[1][1], bench.todo[1][2],
                                     DefaultIterations)
                ELSE [bench EXCEPT !.pc = "done",
                                   !.baseline = results'[1].kernel_name]
    /\ UNCHANGED <<fwd, clock, kernel_ms>>
    /\ UNCHANGED benchRest

\* a caller calls benchmark_kernel itself, with an iteration count of its own
BenchmarkKernelCall(kernel_fn, iterations) ==
    /\ bench.pc = "idle"
    /\ bench.caller = "none"
    /\ bench' = BenchmarkKernel([bench EXCEPT !.caller = "direct"],
                                kernel_fn, kernel_fn, iterations)
    /\ UNCHANGED <<fwd, results, clock, kernel_ms>>
    /\ UNCHANGED benchRest

\* --------------------------------------------------- audiogen::AudioGenEngine
\* Strings that the code builds by concatenation are sequences of their parts;
\* the empty string is the empty sequence.

\* AudioGenResult
AudioGenResult(audio_data, sample_rate, generation_time_ms, success, error_message) ==
    [audio_data |-> audio_data, sample_rate |-> sample_rate,
     generation_time_ms |-> generation_time_ms, success |-> success,
     error_message |-> error_message]

\* a result written as {.success = false, .error_message = message}: the
\* other members are value-initialized
FailedResult(error_message) == AudioGenResult(<< >>, 0, 0, FALSE, error_message)

NoGenResult == AudioGenResult(<< >>, 0, 0, FALSE, << >>)

\* AudioGenParams::sample_rate, the default
SampleRate == 16000

\* a handler for std::logic_error only
CatchesLogicErrorOnly(type) == type \in {"std::logic_error"}

\* generate(): catch (const std::exception& e) takes every exception whose
\* class derives from std::exception
Catches(type) ==
    type \in {"std::exception", "std::runtime_error", "std::logic_error",
              "std::bad_alloc"}

\* no generate() call in progress.  trace lists the backend invocations made
\* by the call, failed tells whether one of them did not return kTfLiteOk
\* (failed_at: the number of invocations made up to and including that one),
\* cancelled whether cancel() was called while the call was in progress;
\* ncalls counts the generate() calls begun
GenIdle(ncalls) ==
    [pc |-> "idle", num_inference_steps |-> 0, callback |-> FALSE, step |-> 0,
     exception |-> << >>, ret |-> NoGenResult, trace |-> << >>,
     progress |-> 0, failed |-> FALSE, failed_at |-> 0, cancelled |-> FALSE,
     unwound |-> FALSE, ncalls |-> ncalls]

\* AudioGenEngine::AudioGenEngine: initialized_{false}, cancel_requested_{false}
InitEngine ==
    /\ engine = [initialized_ |-> FALSE, cancel_requested_ |-> FALSE]
    /\ gen = GenIdle(0)

\* what a call on the engine leaves alone
genRest == <<ringSide, lifVars, instVars, kres, encSide, benchVars, utilVars, obs, clr,
            fresh>>

\* AudioGenEngine::initialize(): load_models() succeeds or fails
Initialize(loaded) ==
    /\ gen.pc = "idle"
    /\ ~engine.initialized_
    /\ engine' = [engine EXCEPT !.initialized_ = loaded]
    /\ UNCHANGED gen
    /\ UNCHANGED genRest

\* AudioGenEngine::cancel(), called from another thread at any time
Cancel ==
    /\ engine' = [engine EXCEPT !.cancel_requested_ = TRUE]
    /\ gen' = IF gen.pc \in {"idle", "returned"} THEN gen
              ELSE [gen EXCEPT !.cancelled = TRUE]
    /\ UNCHANGED genRest

\* generate(params, callback): lines 181-189, the early return of an engine
\* that is not initialized, else the call is under way
GenerateCall(num_inference_steps, callback) ==
    /\ gen.pc \in {"idle", "returned"}
    /\ gen.ncalls < MaxGenerate
    /\ gen' = IF ~engine.initialized_
              THEN [GenIdle(gen.ncalls + 1) EXCEPT
                       !.pc = "returned",
                       !.num_inference_steps = num_inference_steps,
                       !.callback = callback,
                       !.ret = FailedResult(<<"Engine not initialized">>)]
              ELSE [GenIdle(gen.ncalls + 1) EXCEPT
                       !.pc = "reset_cancel",
                       !.num_inference_steps = num_inference_steps,
                       !.callback = callback]
    /\ UNCHANGED engine
    /\ UNCHANGED genRest

\* line 191: cancel_requested_ = false
G_ResetCancel ==
    /\ gen.pc = "reset_cancel"
    /\ engine' = [engine EXCEPT !.cancel_requested_ = FALSE]
    /\ gen' = [gen EXCEPT !.pc = "encode_prompt"]
    /\ UNCHANGED genRest

\* a progress callback call, if the caller gave a callback
Progress(g) == IF g.callback THEN [g EXCEPT !.progress = @ + 1] ELSE g

\* a backend invocation by stage: Invoke() returns kTfLiteOk and the call goes
\* on at pc next, or it does not and the stage throws std::runtime_error(what)
Invoked(g, stage, ok, next, what) ==
    IF ok
    THEN [g EXCEPT !.pc = next, !.trace = Append(@, stage)]
    ELSE [g EXCEPT !.pc = "thrown", !.trace = Append(@, stage),
                   !.failed = TRUE, !.failed_at = Len(g.trace) + 1,
                   !.exception = <<"std::runtime_error", what>>]

\* lines 199-200: callback, encode_prompt (conditioner Invoke)
G_EncodePrompt(ok) ==
    /\ gen.pc = "encode_prompt"
    /\ gen' = Invoked(Progress(gen), "conditioner", ok, "check_cancel_1",
                      "Conditioner inference failed")
    /\ UNCHANGED engine
    /\ UNCHANGED genRest

\* the return {.success = false, .error_message = "Cancelled"}
ReturnCancelled(g) ==
    [g EXCEPT !.pc = "returned", !.ret = FailedResult(<<"Cancelled">>)]

\* lines 202-207: the cancel test after encode_prompt, then the callback and
\* the call of diffusion_loop
G_CheckCancel1 ==
    /\ gen.pc = "check_cancel_1"
    /\ gen' = IF engine.cancel_requested_
              THEN ReturnCancelled(gen)
              ELSE [Progress(gen) EXCEPT !.pc = "diffusion_step", !.step = 0]
    /\ UNCHANGED engine
    /\ UNCHANGED genRest

\* diffusion_loop, lines 298-303: the loop test, the cancel test (break) and
\* the callback of one step
G_DiffusionStep ==
    /\ gen.pc = "diffusion_step"
    /\ gen' = IF gen.step < gen.num_inference_steps /\ ~engine.cancel_requested_
              THEN [Progress(gen) EXCEPT !.pc = "dit_invoke"]
              ELSE [gen EXCEPT !.pc = "check_cancel_2"]
    /\ UNCHANGED engine
    /\ UNCHANGED genRest

\* diffusion_loop, lines 306-329: the DiT Invoke of one step and ++step
G_DitInvoke(ok) ==
    /\ gen.pc = "dit_invoke"
    /\ gen' = LET g == Invoked(gen, "dit", ok, "diffusion_step",
                               "DiT inference failed")
              IN  IF ok THEN [g EXCEPT !.step = @ + 1] ELSE g
    /\ UNCHANGED engine
    /\ UNCHANGED genRest

\* lines 215-220: the cancel test after diffusion_loop, then the callback
G_CheckCancel2 ==
    /\ gen.pc = "check_cancel_2"
    /\ gen' = IF engine.cancel_requested_
              THEN ReturnCancelled(gen)
              ELSE [Progress(gen) EXCEPT !.pc = "decode_latent"]
    /\ UNCHANGED engine
    /\ UNCHANGED genRest

\* lines 221-235: decode_latent (autoencoder Invoke) and the successful
\* return; generation_time counts the backend invocations made
G_DecodeLatent(ok) ==
    /\ gen.pc = "decode_latent"
    /\ gen' = LET g == Invoked(gen, "autoencoder", ok, "returned",
                               "AutoEncoder inference failed")
              IN  IF ok
                  THEN [g EXCEPT !.ret = AudioGenResult(<<"audio">>, SampleRate,
                                             Len(g.trace), TRUE, << >>)]
                  ELSE g
    /\ UNCHANGED engine
    /\ UNCHANGED genRest

\* lines 237-243: the exception reaches the end of the try block; the handler
\* returns the failed result, or the exception leaves generate()
G_Handler ==
    /\ gen.pc = "thrown"
    /\ gen' = IF Catches(gen.exception[1])
              THEN [gen EXCEPT !.pc = "returned",
                               !.ret = FailedResult(<<"Exception: ",
                                                      gen.exception[2]>>)]
              ELSE [gen EXCEPT !.pc = "unwound", !.unwound = TRUE]
    /\ UNCHANGED engine
    /\ UNCHANGED genRest

\* engine variables of a specification that has no engine
ParkEngine == InitEngine

\* ------------------------------------------------ cortexn::utils::RingBuffer<T>
\* RingBuffer(capacity): buffer_(capacity), capacity_(capacity), both indices
\* 0.  The items pushed are the numbers 1, 2, ...; 0 is a value-initialized T.
InitUtilRing ==
    /\ \E capacity \in 1..MaxUtilCap :
          util = [buffer_ |-> [k \in 0..(capacity - 1) |-> 0],
                  capacity_ |-> capacity, write_idx_ |-> 0, read_idx_ |-> 0]
    /\ util_obs = [pushed |-> << >>, popped |-> << >>, offered |-> 0,
                   op |-> "none", ret |-> FALSE]

\* what a call on the buffer leaves alone
utilRest == <<ringSide, lifVars, instVars, kres, encSide, benchVars, genVars, obs, clr,
             fresh>>

\* push: next_write = (current_write + 1) % capacity_
NextWrite(current_write) == (current_write + 1) % util.capacity_

\* push(item)
Push(item) ==
    LET current_write == util.write_idx_
        next_write == NextWrite(current_write)
    IN  /\ util_obs.offered < MaxUtilItems
        /\ IF next_write = util.read_idx_
           THEN /\ UNCHANGED util
                /\ util_obs' = [util_obs EXCEPT !.offered = @ + 1,
                                                !.op = "push", !.ret = FALSE]
           ELSE /\ util' = [util EXCEPT !.buffer_[current_write] = item,
                                        !.write_idx_ = next_write]
                /\ util_obs' = [util_obs EXCEPT !.offered = @ + 1,
                                                !.pushed = Append(@, item),
                                                !.op = "push", !.ret = TRUE]
        /\ UNCHANGED utilRest

\* pop(item)
Pop ==
    LET current_read == util.read_idx_
    IN  /\ IF current_read = util.write_idx_
           THEN /\ UNCHANGED util
                /\ util_obs' = [util_obs EXCEPT !.op = "pop", !.ret = FALSE]
           ELSE /\ util' = [util EXCEPT
                               !.read_idx_ = (current_read + 1) % util.capacity_]
                /\ util_obs' = [util_obs EXCEPT
                                   !.popped = Append(@, util.buffer_[current_read]),
                                   !.op = "pop", !.ret = TRUE]
        /\ UNCHANGED utilRest

\* variables of a specification without this buffer
ParkUtilRing ==
    /\ util = [buffer_ |-> [k \in 0..0 |-> 0], capacity_ |-> 1,
               write_idx_ |-> 0, read_idx_ |-> 0]
    /\ util_obs = [pushed |-> << >>, popped |-> << >>, offered |-> 0,
                   op |-> "none", ret |-> FALSE]

\* no available() or remaining() call in progress.  thread is the thread
\* that makes the call; hi and lo observe it: the largest and the smallest
\* number of unread samples at any instant since the call began
ObsIdle ==
    [pc |-> "idle", fn |-> "none", thread |-> "none", write_pos |-> 0,
     ret |-> 0, hi |-> 0, lo |-> 0]

\* no clear() call in progress, none made yet.  thread is the thread that
\* calls clear(), mark the number of samples written when the call loaded
\* write_pos_, done whether a clear() call has completed, and settled the
\* length of readOut when the last clear() and the read() it ran into had
\* both returned (-1 until then)
ClrIdle(thread) ==
    [pc |-> "idle", thread |-> thread, write_pos |-> 0, mark |-> 0,
     done |-> FALSE, settled |-> -1]

\* variables of a specification in which only write and read are called
ParkObs ==
    /\ obs = ObsIdle
    /\ clr = ClrIdle("none")
    /\ fresh = NoFresh

\* benchmark variables of a specification that runs no benchmark
ParkBench ==
    /\ bench = BenchIdle
    /\ results = << >>
    /\ clock = 0
    /\ kernel_ms = 1

\* the variables of the later components, in a specification without them
ParkExt ==
    /\ ParkBench
    /\ ParkEngine
    /\ ParkUtilRing
    /\ ParkObs

\* encoder variables of a specification that has no encoder
ParkEncoders ==
    /\ ParkSpikeEncoder
    /\ ParkLatencyEncoder
    /\ ParkContrastEncoder

\* ring buffer variables of a specification that has no ring buffer
ParkRing ==
    /\ InitRing
    /\ requested = 1
    /\ prod = ThreadIdle
    /\ cons = ThreadIdle

\* layer variables of a specification that has no layer
ParkLayer ==
    /\ have_sme2 = FALSE
    /\ have_neon = FALSE
    /\ params_ = LIFParamsDefault
    /\ InitLayer
    /\ this = 0
    /\ other = NewLayer(LIFParamsDefault)
    /\ kres = NoKres

\* layer and encoder variables of a ring buffer specification
ParkLIF ==
    /\ ParkLayer
    /\ ParkEncoders
    /\ ParkExt

InitLIF ==
    /\ ParkRing
    /\ have_sme2 \in BOOLEAN
    /\ have_neon \in BOOLEAN
    /\ params_ \in ParamChoices
    /\ InitLayer
    /\ this = 0
    /\ other = NewLayer(LIFParamsDefault)
    /\ kres = NoKres
    /\ ParkEncoders
    /\ ParkExt

LIFLoadWeights ==
    \E weights \in WeightChoices, bias \in BiasChoices : LoadWeights(weights, bias)
LIFForward == \E input_spikes \in SpikeChoices : ForwardCall(input_spikes)

NextLIF ==
    \/ LIFLoadWeights
    \/ Reset
    \/ LIFForward
    \/ SpikeDenseForward
    \/ SpikeDenseSme2
    \/ SpikeDenseNeon
    \/ UpdateNeuron
    \/ ForwardReturn

SpecLIF == InitLIF /\ [][NextLIF]_vars

\* ---- specification: a layer that is reset, and a newly constructed layer
\* that receives the calls made on it from then on

InitFresh ==
    /\ ParkRing
    /\ have_sme2 \in BOOLEAN
    /\ have_neon \in BOOLEAN
    /\ params_ \in ParamChoices
    /\ InitLayer
    /\ this = 0
    /\ other = NewLayer(LIFParamsDefault)
    /\ kres = NoKres
    /\ ParkEncoders
    /\ ParkExt

FreshLoad ==
    \E weights \in WeightChoices, bias \in BiasChoices :
        FreshLoadWeights(weights, bias)
FreshCall == \E input_spikes \in SpikeChoices : FreshForwardCall(input_spikes)

NextFresh ==
    \/ FreshLoad
    \/ FreshReset
    \/ FreshCall
    \/ SpikeDenseForward
    \/ SpikeDenseSme2
    \/ SpikeDenseNeon
    \/ UpdateNeuron
    \/ FreshForwardReturn

SpecFresh == InitFresh /\ [][NextFresh]_vars

\* ---- the kernel functions called directly, in each of the four builds
KernelFunctions == {"spike_dense_forward", "spike_dense_sme2", "spike_dense_neon"}

\* the arrays handed to the kernel functions: 0/1 spikes and graded values,
\* weights that differ from index to index and uniform ones
KernelSpikeChoices(n) ==
    { [k \in 0..(n - 1) |-> IF k % 2 = 0 THEN One ELSE 0],
      [k \in 0..(n - 1) |-> ((k % 3) - 1) * One + (k % 2)] }

KernelWeightChoices(n) ==
    { [k \in 0..(n - 1) |-> k + 1],
      [k \in 0..(n - 1) |-> MaxWeight] }

KernelArgChoices ==
    UNION { UNION { UNION {
        { KernelArgs(spikes, weights, [o \in 0..(output_size - 1) |-> o + 1],
                     batch_size, input_size, output_size) :
             spikes \in KernelSpikeChoices(batch_size * input_size),
             weights \in KernelWeightChoices(output_size * input_size) } :
        input_size \in 0..MaxKernelInput } :
        output_size \in 1..MaxKernelOutput } :
        batch_size \in 1..MaxKernelBatch }

InitKernel ==
    /\ ParkRing
    /\ have_sme2 \in BOOLEAN
    /\ have_neon \in BOOLEAN
    /\ params_ = LIFParamsDefault
    /\ InitLayer
    /\ this = 0
    /\ other = NewLayer(LIFParamsDefault)
    /\ kres \in { [args |-> args, out |-> << >>] : args \in KernelArgChoices }
    /\ ParkEncoders
    /\ ParkExt

\* the caller calls one kernel function after the other on its arrays
DirectCall == \E entry \in KernelFunctions : KernelCall(entry, kres.args)

NextKernel ==
    \/ DirectCall
    \/ SpikeDenseForward
    \/ SpikeDenseSme2
    \/ SpikeDenseNeon
    \/ KernelReturn

SpecKernel == InitKernel /\ [][NextKernel]_vars

\* two LIFLayer objects in one process, constructed with different
\* parameters and called in turn by one thread
InitInstances ==
    /\ ParkRing
    /\ have_sme2 \in BOOLEAN
    /\ have_neon \in BOOLEAN
    /\ params_ = LIFParamsDefault
    /\ InitLayer
    /\ this = 0
    /\ other \in { NewLayer(p) : p \in ParamChoices \ {LIFParamsDefault} }
    /\ kres = NoKres
    /\ ParkEncoders
    /\ ParkExt

\* the calls of this caller: no bias, and the spike vectors with all inputs
\* or only the first input spiking
InstLoadWeights ==
    \E weights \in WeightChoices : LoadWeights(weights, Zeros(OutputSize))
InstForward ==
    \E input_spikes \in { x \in SpikeChoices :
                             x[0] = One /\ \A k \in 2..(InputSize - 1) : x[k] = x[1] } :
       ForwardCall(input_spikes)

NextInstances ==
    \/ InstLoadWeights
    \/ Reset
    \/ InstForward
    \/ SpikeDenseForward
    \/ SpikeDenseSme2
    \/ SpikeDenseNeon
    \/ UpdateNeuron
    \/ ForwardReturn
    \/ SwitchInstance

SpecInstances == InitInstances /\ [][NextInstances]_vars


\* ---- the benchmark, in each of the four builds
InitBench ==
    /\ ParkRing
    /\ have_sme2 \in BOOLEAN
    /\ have_neon \in BOOLEAN
    /\ params_ = LIFParamsDefault
    /\ InitLayer
    /\ this = 0
    /\ other = NewLayer(LIFParamsDefault)
    /\ kres = NoKres
    /\ ParkEncoders
    /\ bench = BenchIdle
    /\ results = << >>
    /\ clock = 0
    /\ kernel_ms \in 1..MaxKernelMs
    /\ ParkEngine
    /\ ParkUtilRing
    /\ ParkObs

BenchmarkKernelDirect ==
    \E kernel_fn \in KernelFunctions, iterations \in 1..MaxIterations :
       BenchmarkKernelCall(kernel_fn, iterations)

NextBench ==
    \/ RunAllBenchmarks
    \/ BenchmarkKernelDirect
    \/ WarmupInvoke
    \/ StartTimer
    \/ TimedInvoke
    \/ StopTimer
    \/ PushResult
    \/ SpikeDenseForward
    \/ SpikeDenseSme2
    \/ SpikeDenseNeon
    \/ BenchKernelReturned

SpecBench == InitBench /\ [][NextBench]_vars


\* ---- the generation engine: one thread calls initialize() and generate(),
\* another one calls cancel() at any time
InitGen ==
    /\ ParkRing
    /\ ParkLayer
    /\ ParkEncoders
    /\ ParkBench
    /\ InitEngine
    /\ ParkUtilRing
    /\ ParkObs

EngineInitialize == \E loaded \in BOOLEAN : Initialize(loaded)
Generate ==
    \E num_inference_steps \in 0..MaxInferenceSteps, callback \in BOOLEAN :
       GenerateCall(num_inference_steps, callback)
EncodePrompt == \E ok \in BOOLEAN : G_EncodePrompt(ok)
DitInvoke == \E ok \in BOOLEAN : G_DitInvoke(ok)
DecodeLatent == \E ok \in BOOLEAN : G_DecodeLatent(ok)

NextGen ==
    \/ EngineInitialize
    \/ Generate
    \/ G_ResetCancel
    \/ EncodePrompt
    \/ G_CheckCancel1
    \/ G_DiffusionStep
    \/ DitInvoke
    \/ G_CheckCancel2
    \/ DecodeLatent
    \/ G_Handler
    \/ Cancel

SpecGen == InitGen /\ [][NextGen]_vars


\* ---- the spike ring buffer, called by one thread
InitUtil ==
    /\ ParkRing
    /\ ParkLayer
    /\ ParkEncoders
    /\ ParkBench
    /\ ParkEngine
    /\ InitUtilRing
    /\ ParkObs

UtilPush == Push(util_obs.offered + 1)
UtilPop == Pop

NextUtil == UtilPush \/ UtilPop

SpecUtil == InitUtil /\ [][NextUtil]_vars

\* ---- specifications of the encoders
InitLatency ==
    /\ ParkRing
    /\ ParkLayer
    /\ InitLatencyEncoder
    /\ ParkSpikeEncoder
    /\ ParkContrastEncoder
    /\ ParkExt

LatencyCall == \E input \in LatencyInputs : LatencyEncoderEncode(input)

NextLatency == LatencyCall

SpecLatency == InitLatency /\ [][NextLatency]_vars

InitEncoder ==
    /\ ParkRing
    /\ ParkLayer
    /\ InitSpikeEncoder
    /\ ParkLatencyEncoder
    /\ ParkContrastEncoder
    /\ ParkExt

SpikeEncoderEncode ==
    \E batch_size \in 1..MaxEncBatch :
       \E input \in EncInputChoices(batch_size * encoder.input_size_),
          stream \in RngStreams(TensorSize(batch_size)) :
          Encode(input, batch_size, stream)

NextEncoder == SpikeEncoderEncode

SpecEncoder == InitEncoder /\ [][NextEncoder]_vars

InitContrast ==
    /\ ParkRing
    /\ ParkLayer
    /\ InitContrastEncoder
    /\ ParkSpikeEncoder
    /\ ParkLatencyEncoder
    /\ ParkExt

ContrastCall ==
    \E input \in [0..(contrast.input_size_ - 1) -> ContrastValues] :
       ContrastEncode(input)

NextContrast == ContrastCall

SpecContrast == InitContrast /\ [][NextContrast]_vars

\* --------------------------------------------- whole calls, one thread
\* RingBuffer::write(data, count), run to completion
Write(count) ==
    LET write_pos == write_pos_
        read_pos  == read_pos_
        space == WriteSpace(write_pos, read_pos)
        cnt   == Min(count, space)
        data  == CallerData(count)
        first_chunk == FirstChunk(cnt, write_pos)
        touched == Touched(write_pos, cnt)
        call == [op |-> "write", count |-> count, ret |-> cnt,
                 data |-> SubSeq(data, 1, cnt),
                 regions |-> IF cnt = 0 THEN <<>> ELSE Regions(write_pos, cnt),
                 pre_write |-> write_pos, pre_read |-> read_pos,
                 pre_avail |-> available, pre_remaining |-> remaining,
                 pre_buf |-> buffer_]
    IN  /\ Len(written) + count <= MaxSamples
        /\ IF cnt = 0
           THEN UNCHANGED <<buffer_, write_pos_, oob>>
           ELSE /\ buffer_' =
                     [k \in Slots |->
                        IF \E j \in 0..(cnt - 1) :
                               ChunkIndex(write_pos, first_chunk, j) = k
                        THEN data[1 + CHOOSE j \in 0..(cnt - 1) :
                               ChunkIndex(write_pos, first_chunk, j) = k]
                        ELSE buffer_[k]]
                /\ write_pos_' = NewPos(write_pos, cnt)
                /\ oob' = (oob \/ ~(touched \subseteq Slots))
        /\ written' = written \o SubSeq(data, 1, cnt)
        /\ lastCall' = call
        /\ prevCall' = lastCall
        /\ UNCHANGED <<capacity_, requested, read_pos_, readOut, consumed, clearMark>>
        /\ UNCHANGED ringRest

\* what a memcpy out of the array reads at index k (0 stands for whatever lies
\* outside the array; such a read also sets oob)
Slot(k) == IF k \in Slots THEN buffer_[k] ELSE 0

\* RingBuffer::read(data, count), run to completion
Read(count) ==
    LET read_pos  == read_pos_
        write_pos == write_pos_
        avail == ReadAvail(write_pos, read_pos)
        cnt   == Min(count, avail)
        first_chunk == FirstChunk(cnt, read_pos)
        touched == Touched(read_pos, cnt)
        out == [j \in 1..cnt |-> Slot(ChunkIndex(read_pos, first_chunk, j - 1))]
        call == [op |-> "read", count |-> count, ret |-> cnt,
                 data |-> out,
                 regions |-> IF cnt = 0 THEN <<>> ELSE Regions(read_pos, cnt),
                 pre_write |-> write_pos, pre_read |-> read_pos,
                 pre_avail |-> available, pre_remaining |-> remaining,
                 pre_buf |-> buffer_]
    IN  /\ IF cnt = 0
           THEN UNCHANGED <<read_pos_, oob>>
           ELSE /\ read_pos_' = NewPos(read_pos, cnt)
                /\ oob' = (oob \/ ~(touched \subseteq Slots))
        /\ readOut' = readOut \o out
        /\ consumed' = consumed + cnt
        /\ lastCall' = call
        /\ prevCall' = lastCall
        /\ UNCHANGED <<capacity_, requested, buffer_, write_pos_, written, clearMark>>
        /\ UNCHANGED ringRest

\* a clear() that stores the read cursor back, discarding nothing
ClearTargetStale == read_pos_

\* clear(): the value stored into read_pos_ is write_pos_.load(acquire)
ClearTarget == write_pos_

\* RingBuffer::clear()
Clear ==
    LET call == [op |-> "clear", count |-> 0, ret |-> 0, data |-> <<>>,
                 regions |-> <<>>,
                 pre_write |-> write_pos_, pre_read |-> read_pos_,
                 pre_avail |-> available, pre_remaining |-> remaining,
                 pre_buf |-> buffer_]
    IN  /\ read_pos_' = ClearTarget
        /\ consumed' = Len(written)
        /\ clearMark' = Len(written)
        /\ lastCall' = call
        /\ prevCall' = lastCall
        /\ UNCHANGED <<capacity_, requested, buffer_, write_pos_, written, readOut, oob>>
        /\ UNCHANGED ringRest

\* ------------------------------------------------ specification: one thread
InitSeq ==
    /\ InitRing
    /\ prod = ThreadIdle
    /\ cons = ThreadIdle
    /\ ParkLIF

SeqWrite == \E count \in 0..MaxCount : Write(count) /\ UNCHANGED spscVars
SeqRead  == \E count \in 0..MaxCount : Read(count) /\ UNCHANGED spscVars
SeqClear == Clear /\ UNCHANGED spscVars

NextSeq == SeqWrite \/ SeqRead \/ SeqClear

SpecSeq == InitSeq /\ [][NextSeq]_vars

\* ------------------------------ the SPSC protocol, one step per memory access
\* The cursors are std::atomic: the producer's release store of write_pos_
\* after its memcpy, and the consumer's acquire load of it before its memcpy
\* (and the same for read_pos_ the other way round), order the copies with
\* the cursor accesses, so each thread's steps take effect in program order
\* and the threads interleave.  A memcpy is one step per slot.

\* write(): call, and line 25, write_pos_.load(relaxed)
W_CallBody(count) ==
    /\ prod.pc = "idle"
    /\ Len(written) + count <= MaxSamples
    /\ prod' = Thread("load_read", count, CallerData(count), write_pos_, 0, 0, 0)
    /\ UNCHANGED <<ringVars, ghostVars, cons>>

W_Call(count) ==
    /\ W_CallBody(count)
    /\ UNCHANGED ringRest

\* write(): line 26, read_pos_.load(acquire), and the arithmetic of lines 28-41;
\* returns 0 when there is no space
W_LoadReadBody ==
    /\ prod.pc = "load_read"
    /\ LET read_pos == read_pos_
           space == WriteSpace(prod.write_pos, read_pos)
           cnt == Min(prod.count, space)
       IN  prod' = IF cnt = 0
                   THEN ThreadIdle
                   ELSE [prod EXCEPT !.pc = "copy", !.read_pos = read_pos,
                                     !.cnt = cnt, !.i = 0]
    /\ UNCHANGED <<ringVars, ghostVars, cons>>

W_LoadRead ==
    /\ W_LoadReadBody
    /\ UNCHANGED ringRest

\* write(): lines 44-50, the two memcpy calls, slot by slot
W_CopyBody ==
    /\ prod.pc = "copy"
    /\ LET first_chunk == FirstChunk(prod.cnt, prod.write_pos)
           k == ChunkIndex(prod.write_pos, first_chunk, prod.i)
       IN  /\ buffer_' = IF k \in Slots
                         THEN [buffer_ EXCEPT ![k] = prod.data[prod.i + 1]]
                         ELSE buffer_
           /\ oob' = (oob \/ k \notin Slots)
    /\ prod' = [prod EXCEPT !.i = prod.i + 1,
                            !.pc = IF prod.i + 1 = prod.cnt THEN "store" ELSE "copy"]
    /\ UNCHANGED <<capacity_, write_pos_, read_pos_, requested, written, readOut,
                   consumed, clearMark, lastCall, prevCall, cons>>

W_Copy ==
    /\ W_CopyBody
    /\ UNCHANGED ringRest

\* write(): lines 53-56, write_pos_.store(release) and return count
W_StoreBody ==
    /\ prod.pc = "store"
    /\ write_pos_' = NewPos(prod.write_pos, prod.cnt)
    /\ written' = written \o SubSeq(prod.data, 1, prod.cnt)
    /\ prod' = ThreadIdle
    /\ UNCHANGED <<capacity_, buffer_, read_pos_, requested, readOut, consumed,
                   clearMark, lastCall, prevCall, oob, cons>>

W_Store ==
    /\ W_StoreBody
    /\ UNCHANGED ringRest

\* read(): call, and line 60, read_pos_.load(relaxed)
R_CallBody(count) ==
    /\ cons.pc = "idle"
    /\ cons' = Thread("load_write", count, <<>>, 0, read_pos_, 0, 0)
    /\ UNCHANGED <<ringVars, ghostVars, prod>>

R_Call(count) ==
    /\ R_CallBody(count)
    /\ UNCHANGED ringRest

\* read(): line 61, write_pos_.load(acquire), and the arithmetic of lines 63-76;
\* returns 0 when there is no data
R_LoadWriteBody ==
    /\ cons.pc = "load_write"
    /\ LET write_pos == write_pos_
           avail == ReadAvail(write_pos, cons.read_pos)
           cnt == Min(cons.count, avail)
       IN  cons' = IF cnt = 0
                   THEN ThreadIdle
                   ELSE [cons EXCEPT !.pc = "copy", !.write_pos = write_pos,
                                     !.cnt = cnt, !.i = 0]
    /\ UNCHANGED <<ringVars, ghostVars, prod>>

R_LoadWrite ==
    /\ R_LoadWriteBody
    /\ UNCHANGED ringRest

\* read(): lines 79-85, the two memcpy calls, slot by slot
R_CopyBody ==
    /\ cons.pc = "copy"
    /\ LET first_chunk == FirstChunk(cons.cnt, cons.read_pos)
           k == ChunkIndex(cons.read_pos, first_chunk, cons.i)
       IN  /\ cons' = [cons EXCEPT !.data = Append(cons.data, Slot(k)),
                                   !.i = cons.i + 1,
                                   !.pc = IF cons.i + 1 = cons.cnt
                                          THEN "store" ELSE "copy"]
           /\ oob' = (oob \/ k \notin Slots)
    /\ UNCHANGED <<ringVars, requested, written, readOut, consumed, clearMark,
                   lastCall, prevCall, prod>>

R_Copy ==
    /\ R_CopyBody
    /\ UNCHANGED ringRest

\* read(): lines 88-91, read_pos_.store(release) and return count
R_StoreBody ==
    /\ cons.pc = "store"
    /\ read_pos_' = NewPos(cons.read_pos, cons.cnt)
    /\ readOut' = readOut \o cons.data
    /\ consumed' = consumed + cons.cnt
    /\ cons' = ThreadIdle
    /\ UNCHANGED <<capacity_, buffer_, write_pos_, requested, written, clearMark,
                   lastCall, prevCall, oob, prod>>

R_Store ==
    /\ R_StoreBody
    /\ UNCHANGED ringRest

InitSPSC ==
    /\ InitRing
    /\ prod = ThreadIdle
    /\ cons = ThreadIdle
    /\ ParkLIF

ProducerCall == \E count \in 0..MaxCount : W_Call(count)
ConsumerCall == \E count \in 0..MaxCount : R_Call(count)

NextSPSC ==
    \/ ProducerCall
    \/ W_LoadRead
    \/ W_Copy
    \/ W_Store
    \/ ConsumerCall
    \/ R_LoadWrite
    \/ R_Copy
    \/ R_Store

SpecSPSC == InitSPSC /\ [][NextSPSC]_vars

\* ------------------------------------------------- claims: ring buffer calls

\* samples accepted and neither read nor discarded
Unread == Len(written) - consumed

\* C2: in every state reached by write, read and clear calls,
\* available() + remaining() is the physical capacity minus one, which is the
\* requested capacity; available() is the number of unread samples and
\* remaining() the number of free slots.
C2_AvailablePlusRemaining ==
    /\ available + remaining = capacity_ - 1
    /\ capacity_ - 1 = requested
    /\ available = Unread
    /\ remaining = requested - Unread
    /\ remaining >= 0

C2_Witness ==
    /\ lastCall.op = "write"
    /\ prevCall.op = "clear"
    /\ write_pos_ < read_pos_
    /\ available > 0
    /\ remaining > 0

\* C3: write returns min(count, remaining()) and read returns
\* min(count, available()), both taken at the start of the call, and the
\* call's cursor advances modulo the physical capacity by the returned number
\* while the other cursor stays.
C3_TransferCount ==
    /\ lastCall.op = "write" =>
          /\ lastCall.ret = Min(lastCall.count, lastCall.pre_remaining)
          /\ write_pos_ = (lastCall.pre_write + lastCall.ret) % capacity_
          /\ read_pos_ = lastCall.pre_read
    /\ lastCall.op = "read" =>
          /\ lastCall.ret = Min(lastCall.count, lastCall.pre_avail)
          /\ read_pos_ = (lastCall.pre_read + lastCall.ret) % capacity_
          /\ write_pos_ = lastCall.pre_write

C3_Witness ==
    /\ lastCall.op = "read"
    /\ lastCall.count > lastCall.ret
    /\ lastCall.ret > 0
    /\ read_pos_ < lastCall.pre_read
    /\ prevCall.op = "write"
    /\ prevCall.count > prevCall.ret
    /\ prevCall.ret > 0

\* C5: a write on a full buffer and a read on an empty buffer return 0 and
\* leave both cursors and every slot of the array as they were.
C5_Backpressure ==
    /\ (lastCall.op = "write" /\ lastCall.pre_remaining = 0) =>
          /\ lastCall.ret = 0
          /\ write_pos_ = lastCall.pre_write
          /\ read_pos_ = lastCall.pre_read
          /\ buffer_ = lastCall.pre_buf
    /\ (lastCall.op = "read" /\ lastCall.pre_avail = 0) =>
          /\ lastCall.ret = 0
          /\ write_pos_ = lastCall.pre_write
          /\ read_pos_ = lastCall.pre_read
          /\ buffer_ = lastCall.pre_buf

C5_Witness ==
    /\ lastCall.op = "write"
    /\ lastCall.count > 0
    /\ lastCall.pre_remaining = 0
    /\ lastCall.pre_write < lastCall.pre_read
    /\ lastCall.ret = 0
    /\ readOut # <<>>

\* C6: a buffer created with requested capacity N holds at most N unread
\* samples; a write of N samples on an empty buffer returns N and leaves
\* remaining() = 0, a write on that full buffer returns 0, and
\* write_pos = read_pos exactly when no sample is unread (never when full).
C6_Capacity ==
    /\ Unread <= requested
    /\ (write_pos_ = read_pos_) <=> (Unread = 0)
    /\ (lastCall.op = "write" /\ lastCall.pre_avail = 0
          /\ lastCall.count = requested) =>
          /\ lastCall.ret = requested
          /\ Unread = requested
          /\ remaining = 0
    /\ (lastCall.op = "write" /\ prevCall.op = "write"
          /\ prevCall.pre_avail = 0 /\ prevCall.count = requested) =>
          lastCall.ret = 0

C6_Witness ==
    /\ lastCall.op = "write"
    /\ lastCall.count > 0
    /\ lastCall.ret = 0
    /\ prevCall.op = "write"
    /\ prevCall.pre_avail = 0
    /\ prevCall.pre_write > 0
    /\ prevCall.ret = requested
    /\ write_pos_ # read_pos_

\* the regions of a call: at most two, each inside the array, the first one
\* starting at the cursor, a second one starting at index 0 after a first one
\* that ends at the physical end, together as long as the returned count
RegionsOk(call) ==
    LET r == call.regions
    IN  /\ Len(r) <= 2
        /\ (call.ret = 0) <=> (Len(r) = 0)
        /\ \A n \in 1..Len(r) :
              /\ r[n][1] >= 0
              /\ r[n][2] >= 1
              /\ r[n][1] + r[n][2] <= capacity_
        /\ Len(r) = 1 => r[1][2] = call.ret
        /\ Len(r) = 2 =>
              /\ r[1][1] + r[1][2] = capacity_
              /\ r[2][1] = 0
              /\ r[1][2] + r[2][2] = call.ret

\* C7: every write and read is split into at most two contiguous regions
\* (tail of the array, then its start), touches no index outside
\* [0, physical capacity), and a read of the same count that follows a write
\* into an empty buffer, at whatever cursor position, returns exactly the
\* samples written, in order.
C7_WrapRoundTrip ==
    /\ ~oob
    /\ lastCall.op \in {"write", "read"} => RegionsOk(lastCall)
    /\ (lastCall.op = "read" /\ prevCall.op = "write"
          /\ prevCall.pre_avail = 0 /\ lastCall.count = prevCall.ret) =>
          /\ lastCall.ret = lastCall.count
          /\ lastCall.data = prevCall.data
          /\ lastCall.pre_read = prevCall.pre_write

C7_Witness ==
    /\ lastCall.op = "read"
    /\ prevCall.op = "write"
    /\ prevCall.pre_avail = 0
    /\ lastCall.count = prevCall.ret
    /\ Len(prevCall.regions) = 2
    /\ Len(lastCall.regions) = 2
    /\ lastCall.data = prevCall.data
    /\ Len(lastCall.data) >= 2

\* C8: clear() stores the current write_pos into read_pos and leaves
\* write_pos alone, so that available() = 0 and remaining() = requested
\* capacity; every later read returns, in order, samples written after the
\* clear and none of the discarded ones.
C8_Clear ==
    /\ lastCall.op = "clear" =>
          /\ read_pos_ = lastCall.pre_write
          /\ write_pos_ = lastCall.pre_write
          /\ available = 0
          /\ remaining = requested
    /\ lastCall.op = "read" =>
          /\ lastCall.data = SubSeq(written, consumed - lastCall.ret + 1, consumed)
          /\ \A n \in 1..Len(lastCall.data) : lastCall.data[n] > clearMark

C8_Witness ==
    /\ lastCall.op = "read"
    /\ lastCall.ret >= 2
    /\ clearMark > 0
    /\ lastCall.data[1] = clearMark + 1
    /\ Len(readOut) < clearMark
    /\ prevCall.op = "write"

\* ------------------------------------------------ claims: the SPSC protocol

\* C1: with one producer in write and one consumer in read, interleaved in
\* any way and no clear, the samples returned by read calls are, in order, a
\* prefix of the samples accepted by write calls: none lost, duplicated or
\* reordered.
C1_ReadIsPrefixOfWritten ==
    /\ Len(readOut) <= Len(written)
    /\ readOut = SubSeq(written, 1, Len(readOut))
    /\ consumed = Len(readOut)

C1_Witness ==
    /\ Len(readOut) = MaxSamples
    /\ readOut = written
    /\ prod.pc = "idle"
    /\ cons.pc = "idle"
    /\ write_pos_ = read_pos_

\* a slot value that is an accepted sample not yet released by the consumer
IsUnread(v) == v > consumed /\ v <= Len(written)

\* the slots the producer's call in progress writes
ProducerRange ==
    IF prod.pc \in {"copy", "store"}
    THEN Touched(prod.write_pos, prod.cnt)
    ELSE {}

\* the slots the consumer's call in progress reads
ConsumerRange ==
    IF cons.pc \in {"copy", "store"}
    THEN Touched(cons.read_pos, cons.cnt)
    ELSE {}

\* C4: with write and read as separate steps (load cursors, copy each slot,
\* store cursor), the producer never copies into a slot holding a sample the
\* consumer has not finished reading, the consumer never copies from a slot
\* the producer has not finished writing and published, and the producer
\* stores its cursor only after all its data is in place.
C4_NoSlotRace ==
    /\ ~oob
    /\ ProducerRange \cap ConsumerRange = {}
    /\ prod.pc = "copy" =>
          \A j \in prod.i..(prod.cnt - 1) :
             LET k == ChunkIndex(prod.write_pos,
                                 FirstChunk(prod.cnt, prod.write_pos), j)
             IN  k \in Slots /\ ~IsUnread(buffer_[k])
    /\ cons.pc = "copy" =>
          \A j \in cons.i..(cons.cnt - 1) :
             LET k == ChunkIndex(cons.read_pos,
                                 FirstChunk(cons.cnt, cons.read_pos), j)
             IN  k \in Slots /\ buffer_[k] = consumed + j + 1
                             /\ IsUnread(buffer_[k])
    /\ prod.pc \in {"load_read", "copy", "store"} => write_pos_ = prod.write_pos
    /\ prod.pc = "store" =>
          \A j \in 0..(prod.cnt - 1) :
             buffer_[ChunkIndex(prod.write_pos,
                                FirstChunk(prod.cnt, prod.write_pos), j)]
                = prod.data[j + 1]

C4_Witness ==
    /\ prod.pc = "copy"
    /\ prod.i > 0
    /\ prod.write_pos + prod.cnt > capacity_
    /\ cons.pc = "copy"
    /\ cons.write_pos = prod.write_pos

\* ---------------------------------------------------- claims: LIF layer

RECURSIVE SumWeights(_, _)
\* the sum of weights_[k] over the indices k of a set
SumWeights(ks, w) ==
    IF ks = {} THEN 0
    ELSE LET k == CHOOSE x \in ks : TRUE
         IN  w[k] + SumWeights(ks \ {k}, w)

\* (W . x + b)[o] for the 0/1 spike vector x of the forward call
DenseRow(o) ==
    bias_[o] + SumWeights({ o * InputSize + j : j \in
                              { x \in 0..(InputSize - 1) :
                                    fwd.input_spikes[x] = One } }, weights_)

ForwardReturned == last_op = "forward" /\ fwd.pc = "idle"

\* C9: a forward call applies to every neuron i, in this order,
\* syn[i] := beta_syn*syn[i] + input[i]; mem[i] := beta_mem*mem[i] + syn[i];
\* then emits 1 and sets mem[i] := v_reset when mem[i] >= v_thresh (threshold
\* included, syn[i] kept), else emits 0; the values it starts from are those
\* the previous calls left, and nothing changes before the neuron loop runs.
C9_Dynamics ==
    /\ ForwardReturned =>
          \A i \in 0..(OutputSize - 1) :
             LET syn == Decay(beta_syn_, pre_syn[i]) + DenseRow(i)
                 mem == Decay(beta_mem_, pre_mem[i]) + syn
             IN  /\ synaptic_current_[i] = syn
                 /\ mem >= params_.v_thresh =>
                       /\ output_spikes[i] = One
                       /\ membrane_potential_[i] = params_.v_reset
                 /\ mem < params_.v_thresh =>
                       /\ output_spikes[i] = 0
                       /\ membrane_potential_[i] = mem
    /\ fwd.pc \in {"spike_dense_forward", "spike_dense_sme2", "spike_dense_neon",
                   "stack_overflow"} =>
          /\ membrane_potential_ = pre_mem
          /\ synaptic_current_ = pre_syn

C9_Witness ==
    /\ ForwardReturned
    /\ nforward >= 2
    /\ \E i, j \in 0..(OutputSize - 1) :
          /\ pre_syn[i] > 0
          /\ pre_mem[i] > 0
          /\ Decay(beta_mem_, pre_mem[i]) + synaptic_current_[i] = params_.v_thresh
          /\ output_spikes[i] = One
          /\ synaptic_current_[i] > 0
          /\ output_spikes[j] = 0
          /\ membrane_potential_[j] > 0

\* C10: after any sequence of load_weights, forward and reset calls, a forward
\* call that returns has written every element of output_spikes, each with
\* exactly 0.0 or 1.0.
C10_BinaryOutput ==
    /\ ForwardReturned =>
          \A o \in 0..(OutputSize - 1) : output_spikes[o] \in {0, One}
    /\ fwd.pc = "update_neurons" =>
          \A o \in 0..(OutputSize - 1) :
             o < fwd.i => output_spikes[o] \in {0, One}

C10_Witness ==
    /\ ForwardReturned
    /\ nforward = MaxForward
    /\ output_spikes[0] = 0
    /\ output_spikes[1] = One
    /\ weights_[0] # weights_[InputSize]

\* C11: from any state of a layer, reset() leaves membrane_potential[i] =
\* v_rest and synaptic_current[i] = 0 for every neuron, and a reset() that
\* follows a reset() changes no field of the layer.
C11_Reset ==
    [][Reset =>
         /\ \A i \in 0..(OutputSize - 1) :
               /\ membrane_potential_'[i] = params_.v_rest
               /\ synaptic_current_'[i] = 0
         /\ last_op = "reset" => UNCHANGED layerVars
      ]_vars

C11_Witness ==
    /\ last_op = "reset"
    /\ nforward >= 1
    /\ params_.v_rest # params_.v_reset
    /\ \A i \in 0..(OutputSize - 1) :
          /\ pre_mem[i] # params_.v_rest
          /\ pre_syn[i] > 0
          /\ membrane_potential_[i] = params_.v_rest
          /\ synaptic_current_[i] = 0

\* a step of a forward call on the instance being called
ForwardStep ==
    \/ InstForward
    \/ SpikeDenseForward
    \/ SpikeDenseSme2
    \/ SpikeDenseNeon
    \/ UpdateNeuron
    \/ ForwardReturn

\* C12: load_weights leaves membrane_potential and synaptic_current as they
\* are; reset and forward leave weights, bias, the parameters and both decay
\* factors as they are; and of two layer instances, a call on one changes no
\* field of the other: weights and bias of an instance change only in its own
\* load_weights, its neuron state only in its own forward or reset.
C12_Frame ==
    [][/\ InstLoadWeights => UNCHANGED <<membrane_potential_, synaptic_current_>>
       /\ (Reset \/ ForwardStep) =>
             UNCHANGED <<weights_, bias_, params_, beta_mem_, beta_syn_>>
       /\ \A id \in {0, 1} :
             /\ Instance(id)'.params_ = Instance(id).params_
             /\ Instance(id)'.beta_mem_ = Instance(id).beta_mem_
             /\ Instance(id)'.beta_syn_ = Instance(id).beta_syn_
             /\ (\/ Instance(id)'.weights_ # Instance(id).weights_
                 \/ Instance(id)'.bias_ # Instance(id).bias_) =>
                   /\ this = id /\ this' = id
                   /\ last_op' = "load_weights"
                   /\ Instance(id)'.membrane_potential_ = Instance(id).membrane_potential_
                   /\ Instance(id)'.synaptic_current_ = Instance(id).synaptic_current_
             /\ (\/ Instance(id)'.membrane_potential_ # Instance(id).membrane_potential_
                 \/ Instance(id)'.synaptic_current_ # Instance(id).synaptic_current_) =>
                   /\ this = id /\ this' = id
                   /\ fwd.pc = "update_neurons" \/ last_op' = "reset"
                   /\ Instance(id)'.weights_ = Instance(id).weights_
                   /\ Instance(id)'.bias_ = Instance(id).bias_
      ]_vars

C12_Witness ==
    /\ this = 1
    /\ last_op = "forward"
    /\ fwd.pc = "idle"
    /\ other.weights_ # weights_
    /\ other.weights_ # Zeros(InputSize * OutputSize)
    /\ weights_ # Zeros(InputSize * OutputSize)
    /\ other.membrane_potential_ # membrane_potential_
    /\ other.synaptic_current_ # Zeros(OutputSize)
    /\ synaptic_current_ # Zeros(OutputSize)
    /\ other.synaptic_current_ # synaptic_current_

\* ------------------------------------------------ claims: kernel dispatch

\* the call in progress entered the kernel functions through entry
CallOf(entry) == fwd.pc # "idle" /\ fwd.entry = entry

\* C13: in each of the four builds (HAVE_SME2 and HAVE_NEON set or not) a call
\* of kernels::spike_dense_forward terminates: the chain of calls among
\* spike_dense_forward, spike_dense_sme2 and spike_dense_neon enters each
\* function at most once and ends in a kernel body that writes the output.
C13_DispatchTerminates ==
    CallOf("spike_dense_forward") =>
       /\ fwd.pc # "stack_overflow"
       /\ Len(fwd.path) <= Cardinality(KernelFunctions)
       /\ \A m, n \in 1..Len(fwd.path) : fwd.path[m] = fwd.path[n] => m = n
       /\ fwd.pc = "kernel_returned" => fwd.body \in {"scalar", "neon"}

C13_Witness ==
    /\ CallOf("spike_dense_forward")
    /\ have_sme2 /\ ~have_neon
    /\ fwd.pc = "stack_overflow"
    /\ fwd.body = "none"
    /\ fwd.output = StaleOutput(fwd.args)
    /\ fwd.args.input_size > 0

\* C14: spike_dense_forward takes the SME2 path when HAVE_SME2 is set, else
\* the NEON kernel when HAVE_NEON is set, else the scalar loop; in every one
\* of the four builds exactly one kernel body computes the output, and which
\* one depends on the build only, not on the arguments.
C14_KernelSelection ==
    CallOf("spike_dense_forward") =>
       /\ fwd.pc # "stack_overflow"
       /\ Len(fwd.path) >= 2 =>
             fwd.path[2] = IF have_sme2 THEN "spike_dense_sme2"
                           ELSE "spike_dense_neon"
       /\ (~have_sme2 /\ ~have_neon) => Len(fwd.path) = 1
       /\ fwd.pc = "kernel_returned" =>
             /\ fwd.body = IF have_neon THEN "neon" ELSE "scalar"
             /\ fwd.output = IF have_neon THEN NeonBody ELSE ScalarBody
             /\ have_sme2 => Len(fwd.path) >= 2

C14_Witness ==
    /\ CallOf("spike_dense_forward")
    /\ have_sme2 /\ ~have_neon
    /\ fwd.pc = "stack_overflow"
    /\ fwd.path[2] = "spike_dense_sme2"
    /\ Len(fwd.path) > Cardinality(KernelFunctions)

\* C15: spike_dense_sme2 delegates to spike_dense_neon: in every build a call
\* of spike_dense_sme2 returns, and its output is the output a call of
\* spike_dense_neon returns for the same arguments.
C15_Sme2EqualsNeon ==
    /\ CallOf("spike_dense_sme2") => fwd.pc # "stack_overflow"
    /\ (CallOf("spike_dense_sme2") /\ fwd.pc = "kernel_returned"
          /\ "spike_dense_neon" \in DOMAIN kres.out) =>
          fwd.output = kres.out["spike_dense_neon"].output

C15_Witness ==
    /\ CallOf("spike_dense_sme2")
    /\ have_sme2 /\ ~have_neon
    /\ fwd.pc = "stack_overflow"
    /\ fwd.path[2] = "spike_dense_forward"
    /\ fwd.output = StaleOutput(fwd.args)

RECURSIVE SumProducts(_, _, _, _)
\* the sum of weights[wbase + i] * spikes[sbase + i] over the i of a set,
\* taken in no particular order
SumProducts(is, args, wbase, sbase) ==
    IF is = {} THEN 0
    ELSE LET i == CHOOSE x \in is : TRUE
         IN  FMul(args.weights[wbase + i], args.spikes[sbase + i])
               + SumProducts(is \ {i}, args, wbase, sbase)

\* bias[o] + sum_i weights[o*input_size+i] * spikes[b*input_size+i]
DenseValue(args, b, o) ==
    args.bias[o] + SumProducts(0..(args.input_size - 1), args,
                               o * args.input_size, b * args.input_size)

DenseOutput(args) ==
    [k \in 0..(args.batch_size * args.output_size - 1) |->
        DenseValue(args, k \div args.output_size, k % args.output_size)]

\* C16: for every batch_size, output_size and input_size (also input_size
\* below 4 and not divisible by 4) the NEON kernel body and the scalar loop
\* compute, for every (b, o), the value
\* bias[o] + sum_i weights[o*input_size+i]*spikes[b*input_size+i]: with exact
\* sums the two differ by the order of summation only.
C16_KernelEquivalence ==
    /\ fwd.pc = "kernel_returned" =>
          /\ fwd.output = DenseOutput(fwd.args)
          /\ ScalarBody = NeonBody
    /\ \A e \in DOMAIN kres.out : kres.out[e].output = DenseOutput(kres.args)

C16_Witness ==
    /\ fwd.pc = "kernel_returned"
    /\ fwd.body = "neon"
    /\ fwd.args.input_size > 4
    /\ fwd.args.input_size % 4 = 3
    /\ fwd.args.batch_size = 2
    /\ fwd.args.output_size = 2
    /\ fwd.output[0] # fwd.output[1]
    /\ fwd.output[1] # fwd.output[3]
    /\ \E k \in DOMAIN fwd.args.spikes : fwd.args.spikes[k] \notin {0, One}
    /\ \E e \in DOMAIN kres.out :
          kres.out[e].body = "neon" /\ kres.out[e].output = fwd.output

\* ---------------------------------------------------- claims: encoders

\* floor((1 - clamp((x+1)/2, 0, 1)) * num_steps) for a grid value x
LatencyFloor(num_steps, x) ==
    IF x >= One THEN 0
    ELSE IF x <= -One THEN num_steps
    ELSE ((One - x) * num_steps) \div (2 * One)

\* C17: for num_steps >= 1 and every input x, LatencyEncoder::encode returns
\* floor((1 - clamp((x+1)/2, 0, 1)) * num_steps) limited to
\* [0, num_steps-1]; input 1.0 gives 0 and input -1.0 gives num_steps-1; and
\* of two calls, the one with the larger input returns the earlier or the
\* same time step.
C17_LatencyEncode ==
    lat_call.made =>
       LET num_steps == latency.num_steps_
           x == lat_call.input
       IN  /\ lat_call.ret \in 0..(num_steps - 1)
           /\ lat_call.ret = Min(LatencyFloor(num_steps, x), num_steps - 1)
           /\ x = One => lat_call.ret = 0
           /\ x = -One => lat_call.ret = num_steps - 1
           /\ lat_prev.made =>
                 /\ lat_prev.input >= x => lat_prev.ret <= lat_call.ret
                 /\ x >= lat_prev.input => lat_call.ret <= lat_prev.ret

C17_Witness ==
    /\ latency.num_steps_ = MaxSteps
    /\ lat_call.made
    /\ lat_call.input = -One
    /\ lat_call.ret = MaxSteps - 1
    /\ lat_prev.made
    /\ lat_prev.input = One - 1
    /\ lat_prev.ret > 0
    /\ lat_prev.ret < lat_call.ret

\* the time steps at which feature (b, i) of the tensor holds 1.0
SpikeSteps(b, i) ==
    { t \in 0..(encoder.num_steps_ - 1) :
         spike_trains[TensorIndex(t, b, i, enc_call.batch_size)] = One }

\* C18: an encode call of a LATENCY encoder leaves, for every (b, i), 1.0 at
\* exactly one time step, the one LatencyEncoder::encode(input[b, i]) gives,
\* and 0.0 at every other time step, and writes no index outside the
\* [num_steps, batch_size, input_size] tensor.
C18_LatencySingleSpike ==
    (enc_call.made /\ encoder.type_ = "LATENCY") =>
       /\ ~enc_call.oob
       /\ DOMAIN spike_trains = 0..(TensorSize(enc_call.batch_size) - 1)
       /\ \A k \in DOMAIN spike_trains : spike_trains[k] \in {0, One}
       /\ \A b \in 0..(enc_call.batch_size - 1), i \in 0..(encoder.input_size_ - 1) :
             SpikeSteps(b, i) =
                { LatencyEncode(encoder.num_steps_,
                                enc_call.input[b * encoder.input_size_ + i]) }

C18_Witness ==
    /\ enc_call.made
    /\ encoder.type_ = "LATENCY"
    /\ encoder.num_steps_ = MaxEncSteps
    /\ encoder.input_size_ = MaxEncInput
    /\ enc_call.batch_size = MaxEncBatch
    /\ SpikeSteps(0, 0) = {encoder.num_steps_ - 1}
    /\ SpikeSteps(MaxEncBatch - 1, MaxEncInput - 1) = {0}
    /\ \E b \in 0..(enc_call.batch_size - 1), i \in 0..(encoder.input_size_ - 1) :
          \E t \in SpikeSteps(b, i) : t > 0 /\ t < encoder.num_steps_ - 1

\* C19: TemporalContrastEncoder::encode sets, for every feature i with
\* delta = input[i] - prev_input[i] (prev_input zero before the first call):
\* on=1, off=0 if delta > threshold; on=0, off=1 if delta < -threshold; on=0,
\* off=0 otherwise (the threshold itself gives no spike); and stores input[i]
\* as prev_input[i] in every case, so that a call compares with the input of
\* the call before it.
C19_TemporalContrast ==
    tc_call.made =>
       /\ tc_call.prev = IF tc_prev.made THEN tc_prev.input
                         ELSE Zeros(contrast.input_size_)
       /\ contrast.prev_input_ = tc_call.input
       /\ \A i \in 0..(contrast.input_size_ - 1) :
             LET delta == tc_call.input[i] - tc_call.prev[i]
             IN  /\ delta > contrast.threshold_ =>
                       tc_call.on_spikes[i] = One /\ tc_call.off_spikes[i] = 0
                 /\ delta < -contrast.threshold_ =>
                       tc_call.on_spikes[i] = 0 /\ tc_call.off_spikes[i] = One
                 /\ (delta <= contrast.threshold_ /\ delta >= -contrast.threshold_) =>
                       tc_call.on_spikes[i] = 0 /\ tc_call.off_spikes[i] = 0

C19_Witness ==
    /\ tc_call.made
    /\ tc_prev.made
    /\ contrast.input_size_ = 2
    /\ contrast.threshold_ > 0
    /\ tc_call.prev[0] # 0
    /\ tc_call.prev[1] # 0
    /\ tc_call.input[0] - tc_call.prev[0] = contrast.threshold_
    /\ tc_call.on_spikes[0] = 0
    /\ tc_call.off_spikes[0] = 0
    /\ tc_call.input[1] - tc_call.prev[1] < -contrast.threshold_
    /\ tc_call.off_spikes[1] = One
    /\ contrast.prev_input_ = tc_call.input

\* C20: SpikeEncoder::encode supports the three encoding types RATE, LATENCY
\* and TEMPORAL: whatever the type, a call writes 0.0 or 1.0 to every element
\* of the [num_steps, batch_size, input_size] tensor.
C20_AllTypesEncode ==
    enc_call.made =>
       /\ DOMAIN spike_trains = 0..(TensorSize(enc_call.batch_size) - 1)
       /\ \A k \in DOMAIN spike_trains : spike_trains[k] \in {0, One}

C20_Witness ==
    /\ enc_call.made
    /\ encoder.type_ = "TEMPORAL"
    /\ TensorSize(enc_call.batch_size) > 1
    /\ spike_trains = StaleTrains(enc_call.batch_size)


\* ------------------- available() and remaining() called while the producer
\* and the consumer run: one step per cursor load

\* what the ring buffer's threads leave alone in these specifications
ringFrame == <<lifVars, instVars, kres, encSide, benchVars, genVars, utilVars, fresh>>

\* available(): the value computed from the two cursor values loaded
AvailableOf(write_pos, read_pos) ==
    IF write_pos >= read_pos
    THEN write_pos - read_pos
    ELSE capacity_ - (read_pos - write_pos)

\* a thread calls fn (available or remaining; remaining calls available):
\* line 95, write_pos_.load(acquire).  The producer's and the consumer's own
\* thread make the call between their write or read calls
A_Call(fn, thread) ==
    /\ obs.pc \in {"idle", "returned"}
    /\ thread = "producer" => prod.pc = "idle"
    /\ thread = "consumer" => cons.pc = "idle"
    /\ obs' = [pc |-> "load_read", fn |-> fn, thread |-> thread,
               write_pos |-> write_pos_, ret |-> 0, hi |-> Unread, lo |-> Unread]
    /\ UNCHANGED <<ringVars, ghostVars, spscVars, clr>>
    /\ UNCHANGED ringFrame

\* line 96, read_pos_.load(acquire), the arithmetic of lines 98-102, and for
\* remaining() capacity_ - available() - 1.  Of the observation, what the
\* function called is measured against is kept
A_LoadRead ==
    /\ obs.pc = "load_read"
    /\ LET read_pos == read_pos_
           avail == AvailableOf(obs.write_pos, read_pos)
       IN  obs' = [obs EXCEPT !.pc = "returned", !.write_pos = 0,
                              !.ret = IF obs.fn = "available" THEN avail
                                      ELSE capacity_ - avail - 1,
                              !.hi = IF obs.fn = "available" THEN @ ELSE 0,
                              !.lo = IF obs.fn = "remaining" THEN @ ELSE 0]
    /\ UNCHANGED <<ringVars, ghostVars, spscVars, clr>>
    /\ UNCHANGED ringFrame

\* the observation of a call in progress, after a step that leaves unread
\* samples unread
Observed(unread) ==
    IF obs.pc = "load_read"
    THEN [obs EXCEPT !.hi = Max(@, unread), !.lo = Min(@, unread)]
    ELSE obs

\* the thread named is not inside available() or remaining()
NotObserving(thread) == ~(obs.pc = "load_read" /\ obs.thread = thread)

ObsAvailable ==
    \E thread \in {"producer", "consumer", "observer"} : A_Call("available", thread)
ObsRemaining ==
    \E thread \in {"producer", "consumer", "observer"} : A_Call("remaining", thread)

\* the steps of write and read, with the observation kept up to date; the
\* counts asked for go up to the requested capacity
ObsProducerCall ==
    /\ NotObserving("producer")
    /\ \E count \in 1..requested : W_CallBody(count)
    /\ UNCHANGED <<obs, clr>>
    /\ UNCHANGED ringFrame
ObsW_LoadRead == W_LoadReadBody /\ UNCHANGED <<obs, clr>> /\ UNCHANGED ringFrame
ObsW_Copy == W_CopyBody /\ UNCHANGED <<obs, clr>> /\ UNCHANGED ringFrame
ObsW_Store ==
    /\ W_StoreBody
    /\ obs' = Observed(Len(written') - consumed')
    /\ UNCHANGED clr
    /\ UNCHANGED ringFrame
ObsConsumerCall ==
    /\ NotObserving("consumer")
    /\ \E count \in 1..requested : R_CallBody(count)
    /\ UNCHANGED <<obs, clr>>
    /\ UNCHANGED ringFrame
ObsR_LoadWrite == R_LoadWriteBody /\ UNCHANGED <<obs, clr>> /\ UNCHANGED ringFrame
ObsR_Copy == R_CopyBody /\ UNCHANGED <<obs, clr>> /\ UNCHANGED ringFrame
ObsR_Store ==
    /\ R_StoreBody
    /\ obs' = Observed(Len(written') - consumed')
    /\ UNCHANGED clr
    /\ UNCHANGED ringFrame

InitObs ==
    /\ InitRing
    /\ requested = MaxCap
    /\ prod = ThreadIdle
    /\ cons = ThreadIdle
    /\ ParkLayer
    /\ ParkEncoders
    /\ ParkBench
    /\ ParkEngine
    /\ ParkUtilRing
    /\ ParkObs

NextObs ==
    \/ ObsProducerCall
    \/ ObsW_LoadRead
    \/ ObsW_Copy
    \/ ObsW_Store
    \/ ObsConsumerCall
    \/ ObsR_LoadWrite
    \/ ObsR_Copy
    \/ ObsR_Store
    \/ ObsAvailable
    \/ ObsRemaining
    \/ A_LoadRead

SpecObs == InitObs /\ [][NextObs]_vars

\* C26: every available() call made while the producer and the consumer run
\* returns at most the number of unread samples of some instant of the call,
\* and every remaining() call at most the number of free slots of some
\* instant of the call, whichever thread makes the call.
C26_SnapshotWithinCall ==
    obs.pc = "returned" =>
        /\ obs.fn = "available" => obs.ret <= obs.hi
        /\ obs.fn = "remaining" => obs.ret <= capacity_ - 1 - obs.lo

\* available() has returned more than was unread at any instant of the call
C26_Witness ==
    /\ obs.pc = "returned"
    /\ obs.fn = "available"
    /\ obs.thread = "observer"
    /\ obs.ret > obs.hi
    /\ obs.ret = requested

\* ----------------------- clear() called while the producer and the consumer
\* run: one step per cursor access

\* the thread named is not inside clear()
NotClearing(thread) == ~(clr.pc = "store" /\ clr.thread = thread)

\* clear(): the call, and write_pos_.load(acquire).  A thread that also
\* writes or reads makes the call between its write or read calls.  One
\* clear() call is followed through each behaviour
Clr_LoadWrite ==
    /\ clr.pc = "idle"
    /\ ~clr.done
    /\ clr.thread = "producer" => prod.pc = "idle"
    /\ clr.thread = "consumer" => cons.pc = "idle"
    /\ clr' = [clr EXCEPT !.pc = "store", !.write_pos = write_pos_,
                          !.mark = Len(written)]
    /\ UNCHANGED <<ringVars, ghostVars, spscVars, obs>>
    /\ UNCHANGED ringFrame

\* the last clear() has returned and no read() that ran into it is left
Settles(c, consumer) == c.done /\ c.pc = "idle" /\ consumer.pc = "idle"

\* clear(): read_pos_.store(the value loaded, release), and the return
Clr_Store ==
    /\ clr.pc = "store"
    /\ read_pos_' = clr.write_pos
    /\ consumed' = clr.mark
    /\ clearMark' = clr.mark
    /\ clr' = [clr EXCEPT !.pc = "idle", !.write_pos = 0, !.done = TRUE,
                          !.settled = IF cons.pc = "idle" THEN Len(readOut)
                                      ELSE -1]
    /\ UNCHANGED <<capacity_, buffer_, write_pos_, requested, written, readOut,
                   lastCall, prevCall, oob, spscVars, obs>>
    /\ UNCHANGED ringFrame

\* the observation after a step of the consumer
ReadSettled ==
    IF clr.settled = -1 /\ Settles(clr, cons')
    THEN [clr EXCEPT !.settled = Len(readOut')]
    ELSE clr

\* the steps of write and read next to clear(); the counts asked for go up to
\* the requested capacity
ClrProducerCall ==
    /\ NotClearing("producer")
    /\ \E count \in 1..requested : W_CallBody(count)
    /\ UNCHANGED <<obs, clr>>
    /\ UNCHANGED ringFrame
ClrW_LoadRead == W_LoadReadBody /\ UNCHANGED <<obs, clr>> /\ UNCHANGED ringFrame
ClrW_Copy == W_CopyBody /\ UNCHANGED <<obs, clr>> /\ UNCHANGED ringFrame
ClrW_Store == W_StoreBody /\ UNCHANGED <<obs, clr>> /\ UNCHANGED ringFrame
ClrConsumerCall ==
    /\ NotClearing("consumer")
    /\ \E count \in 1..requested : R_CallBody(count)
    /\ UNCHANGED <<obs, clr>>
    /\ UNCHANGED ringFrame
ClrR_LoadWrite ==
    /\ R_LoadWriteBody
    /\ clr' = ReadSettled
    /\ UNCHANGED obs
    /\ UNCHANGED ringFrame
ClrR_Copy == R_CopyBody /\ UNCHANGED <<obs, clr>> /\ UNCHANGED ringFrame
ClrR_Store ==
    /\ R_StoreBody
    /\ clr' = ReadSettled
    /\ UNCHANGED obs
    /\ UNCHANGED ringFrame

InitClear ==
    /\ InitRing
    /\ requested = MaxCap
    /\ prod = ThreadIdle
    /\ cons = ThreadIdle
    /\ ParkLayer
    /\ ParkEncoders
    /\ ParkBench
    /\ ParkEngine
    /\ ParkUtilRing
    /\ obs = ObsIdle
    /\ \E thread \in {"producer", "other"} : clr = ClrIdle(thread)
    /\ fresh = NoFresh

NextClear ==
    \/ ClrProducerCall
    \/ ClrW_LoadRead
    \/ ClrW_Copy
    \/ ClrW_Store
    \/ ClrConsumerCall
    \/ ClrR_LoadWrite
    \/ ClrR_Copy
    \/ ClrR_Store
    \/ Clr_LoadWrite
    \/ Clr_Store

SpecClear == InitClear /\ [][NextClear]_vars

\* the samples between the read cursor and the write cursor, in cursor order
Readable ==
    [j \in 1..ReadAvail(write_pos_, read_pos_) |->
        buffer_[(read_pos_ + j - 1) % capacity_]]

\* C27: when clear() is called from a thread other than the consumer's, and
\* it and the read() it ran into have both returned, the read cursor stands
\* at or after the discarded samples, and the reads made from then on
\* return only samples written after the clear, each once, in the order
\* written.
C27_ClearDuringRead ==
    (clr.thread # "consumer" /\ clr.settled >= 0 /\ clr.pc = "idle") =>
        /\ cons.pc = "idle" =>
              \A j \in 1..Len(Readable) : Readable[j] > clearMark
        /\ \A j \in (clr.settled + 1)..Len(readOut) : readOut[j] > clearMark
        /\ \A j \in (clr.settled + 1)..(Len(readOut) - 1) :
              readOut[j] < readOut[j + 1]

\* after a clear() made from the producer's thread during a read(), a later
\* read has returned a sample that the clear had discarded
C27_Witness ==
    /\ clr.thread = "producer"
    /\ clr.settled >= 0
    /\ clr.pc = "idle"
    /\ \E j \in (clr.settled + 1)..Len(readOut) : readOut[j] <= clearMark

\* --------------------------------------------------- claims: the benchmark

\* C21: benchmark_kernel invokes the kernel exactly 10 times before the timer
\* starts, then exactly iterations times between the timer's start and its
\* stop (100 times when run_all_benchmarks calls it), 10 + iterations times
\* in all and never after the stop, and the average it returns is the time
\* that passed between start and stop divided by iterations.
C21_BenchmarkProtocol ==
    /\ bench.timer = "off" => bench.warm <= 10 /\ bench.timed = 0
    /\ bench.timer # "off" => bench.warm = 10
    /\ bench.timer = "running" => bench.timed <= bench.iterations
    /\ bench.late = 0
    /\ bench.caller = "run_all_benchmarks" /\ bench.pc # "done"
          => bench.iterations = 100
    /\ bench.timer = "stopped" =>
          /\ bench.timed = bench.iterations
          /\ bench.warm + bench.timed = 10 + bench.iterations
          /\ bench.end - bench.start = bench.measured_ms
          /\ bench.ret.iterations = bench.iterations
          /\ bench.ret.avg_time_ms.den # 0
          /\ bench.ret.avg_time_ms.num * bench.iterations
                = bench.measured_ms * bench.ret.avg_time_ms.den

\* a benchmark_kernel call of run_all_benchmarks has returned its result
\* after a warm-up that took time
C21_Witness ==
    /\ bench.pc = "returned"
    /\ bench.caller = "run_all_benchmarks"
    /\ bench.timed = 100
    /\ bench.start > 0
    /\ bench.measured_ms = 100 * kernel_ms
    /\ kernel_ms > 1


\* C23: in run_all_benchmarks the first result, named "Scalar", is the
\* speed-up baseline, and its measured invocations execute the scalar
\* triple-loop body, whichever of HAVE_NEON and HAVE_SME2 are defined.
C23_ScalarBaseline ==
    /\ Len(results) >= 1 => results[1].kernel_name = "Scalar"
    /\ bench.pc = "done" => bench.baseline = "Scalar"
    /\ (/\ bench.caller = "run_all_benchmarks"
        /\ bench.kernel_name = "Scalar"
        /\ bench.timer = "stopped")
          => bench.bodies = {"scalar"}

\* the benchmark named "Scalar" has measured the NEON body
C23_Witness ==
    /\ bench.caller = "run_all_benchmarks"
    /\ bench.kernel_name = "Scalar"
    /\ bench.pc = "returned"
    /\ bench.bodies = {"neon"}


\* ------------------------------------------- claims: the generation engine

\* C22: when a backend invocation of a generate() call fails (conditioner,
\* DiT at any step, autoencoder), the call returns a result with success
\* false and a non-empty error_message, the exception never leaves
\* generate(), and the failed invocation is the last one the call makes.
C22_FailureIsReturned ==
    /\ ~gen.unwound
    /\ gen.pc # "unwound"
    /\ gen.failed =>
          /\ gen.pc \in {"thrown", "returned"}
          /\ Len(gen.trace) = gen.failed_at
    /\ gen.failed /\ gen.pc = "returned" =>
          /\ gen.ret.success = FALSE
          /\ gen.ret.error_message # << >>
          /\ gen.ret.audio_data = << >>

\* a DiT invocation failed at the second diffusion step and the call returned
C22_Witness ==
    /\ gen.pc = "returned"
    /\ gen.failed
    /\ gen.trace = <<"conditioner", "dit", "dit">>
    /\ gen.ret.error_message = <<"Exception: ", "DiT inference failed">>

\* C24: a generate() call during which cancel() was called, and in which no
\* backend invocation failed, returns success false with error_message
\* "Cancelled".
C24_CancelCancels ==
    (gen.pc = "returned" /\ gen.cancelled /\ ~gen.failed) =>
        /\ gen.ret.success = FALSE
        /\ gen.ret.error_message = <<"Cancelled">>

\* cancel() was called during a generate() call that returned audio
C24_Witness ==
    /\ gen.pc = "returned"
    /\ gen.cancelled
    /\ gen.ret.success
    /\ gen.ret.audio_data # << >>


\* ---------------------------------------------- claims: utils::RingBuffer

\* items accepted by push and not yet returned by pop
UtilStored == Len(util_obs.pushed) - Len(util_obs.popped)

\* C25: a utils::RingBuffer constructed with capacity N holds N items: a
\* push returns false only when N items are stored, and pop returns the
\* items in the order they were pushed.
C25_HoldsCapacityItems ==
    /\ (util_obs.op = "push" /\ ~util_obs.ret) => UtilStored = util.capacity_
    /\ Len(util_obs.popped) <= Len(util_obs.pushed)
    /\ util_obs.popped = SubSeq(util_obs.pushed, 1, Len(util_obs.popped))

\* a push was refused with fewer than capacity items stored
C25_Witness ==
    /\ util.capacity_ >= 2
    /\ util_obs.op = "push"
    /\ ~util_obs.ret
    /\ UtilStored = util.capacity_ - 1


\* ------------------------------------------- claims: the layer between calls

\* C28: when a forward call has returned, every neuron i has either
\* output_spikes[i] = 1 and membrane_potential[i] = v_reset, or
\* output_spikes[i] = 0 and membrane_potential[i] < v_thresh; so with
\* v_reset < v_thresh no membrane potential is at or above the threshold
\* from the return of a forward call to the next call.
C28_SubthresholdAfterForward ==
    ForwardReturned =>
        /\ \A i \in 0..(OutputSize - 1) :
              \/ /\ output_spikes[i] = One
                 /\ membrane_potential_[i] = params_.v_reset
              \/ /\ output_spikes[i] = 0
                 /\ membrane_potential_[i] < params_.v_thresh
        /\ params_.v_reset < params_.v_thresh =>
              \A i \in 0..(OutputSize - 1) :
                 membrane_potential_[i] < params_.v_thresh

\* a forward call has returned with one neuron reset after reaching the
\* threshold exactly and another one charged below the threshold
C28_Witness ==
    /\ ForwardReturned
    /\ params_.v_reset < 0
    /\ \E i, j \in 0..(OutputSize - 1) :
          /\ output_spikes[i] = One
          /\ membrane_potential_[i] = params_.v_reset
          /\ Decay(beta_mem_, pre_mem[i]) + synaptic_current_[i] = params_.v_thresh
          /\ output_spikes[j] = 0
          /\ membrane_potential_[j] > 0
          /\ membrane_potential_[j] < params_.v_thresh


\* C29: reset() returns the layer to its state at construction except for
\* the loaded weights: whatever forward calls preceded the reset, after it
\* every field of the layer, and the output of every forward call made on it,
\* equals that of a newly constructed layer with the same parameters that was
\* given the same load_weights and the same forward calls.
C29_ResetIsConstruction ==
    fresh.live =>
        /\ fwd.pc = "idle" => ThisLayer = fresh.layer
        /\ ForwardReturned => output_spikes = fresh.output_spikes

C29_Witness ==
    /\ fresh.live
    /\ ForwardReturned
    /\ fresh.disturbed
    /\ params_.v_rest # params_.v_reset
    /\ \E i \in 0..(OutputSize - 1) :
          /\ output_spikes[i] = One
          /\ synaptic_current_[i] > 0

\* ------------------------------------- claims: the contrast encoder, repeated
\* C30: a TemporalContrastEncoder with threshold >= 0 that is given the same
\* input vector in two consecutive calls emits no spike in the second call
\* (on_spikes[i] = 0 and off_spikes[i] = 0 for every i), and in no call are
\* on_spikes[i] and off_spikes[i] both 1.
C30_RepeatedInputIsSilent ==
    tc_call.made =>
       /\ \A i \in 0..(contrast.input_size_ - 1) :
             ~(tc_call.on_spikes[i] = One /\ tc_call.off_spikes[i] = One)
       /\ (tc_prev.made /\ tc_prev.input = tc_call.input) =>
             \A i \in 0..(contrast.input_size_ - 1) :
                /\ tc_call.on_spikes[i] = 0
                /\ tc_call.off_spikes[i] = 0

C30_Witness ==
    /\ tc_call.made
    /\ tc_prev.made
    /\ tc_prev.input = tc_call.input
    /\ contrast.threshold_ = 0
    /\ contrast.input_size_ = 2
    /\ tc_call.input[0] > 0
    /\ tc_call.input[1] < 0
    /\ tc_call.on_spikes = Zeros(2)
    /\ tc_call.off_spikes = Zeros(2)

====
